---- MODULE Spec2Model ----
(***************************************************************************)
(* Orata mapper: a REST gateway over a spatial store (PostGIS).            *)
(*                                                                         *)
(* State: the store's tables (columns, rows, serial counters), the last    *)
(* request, its response, and the statement the handler sent to the store. *)
(* One action per HTTP handler, translated from src/app/api and            *)
(* src/app/crud.  Strings that reach generated SQL text are sequences of   *)
(* one-character strings, so that matching, case folding and the store's   *)
(* tokenising are computed and not assumed.                                *)
(***************************************************************************)
EXTENDS Integers, Sequences, FiniteSets, TLC

VARIABLES
    tables,   \* the store: table name -> [geomType, srid, cols, rows, nextId]
    before,   \* history: the value of tables when the last request arrived
    req,      \* the last request received
    resp,     \* the response to it
    sent,     \* the statement the handler sent to the store for it
    arg,      \* input of the pure function under check
    ret,      \* its result; the value a query handler returned
    pc,       \* where each concurrent client's request stands
    local,    \* each concurrent client's request, row read and response
    held,     \* sessions opened by get_db and not yet closed
    tmpfiles  \* the temporary files of uploads that exist on disk

vars == <<tables, before, req, resp, sent, arg, ret, pc, local, held, tmpfiles>>

\* Python's None where a string is expected, and where an object is expected
None == "None"
NoneObj == [none |-> TRUE]

----------------------------------------------------------------------------
(* Characters and strings *)

LowerLetters ==
    <<"a", "b", "c", "d", "e", "f", "g", "h", "i", "j", "k", "l", "m",
      "n", "o", "p", "q", "r", "s", "t", "u", "v", "w", "x", "y", "z">>
UpperLetters ==
    <<"A", "B", "C", "D", "E", "F", "G", "H", "I", "J", "K", "L", "M",
      "N", "O", "P", "Q", "R", "S", "T", "U", "V", "W", "X", "Y", "Z">>
Range(f) == {f[i] : i \in DOMAIN f}
Letters == Range(LowerLetters) \cup Range(UpperLetters)
Digits == {"0", "1", "2", "3", "4", "5", "6", "7", "8", "9"}
Whitespace == {" ", "\n"}

\* [a-zA-Z_]
IsHeadChar(c) == c \in Letters \cup {"_"}

\* [a-zA-Z0-9_]
IsTailChar(c) == c \in Letters \cup Digits \cup {"_"}

\* str.lower() on one character
LowerChar(c) ==
    IF c \in Range(UpperLetters)
    THEN LowerLetters[CHOOSE i \in DOMAIN UpperLetters : UpperLetters[i] = c]
    ELSE c

\* str.lower(); also the store's folding of an unquoted identifier
Lower(s) == [i \in 1..Len(s) |-> LowerChar(s[i])]

UpperChar(c) ==
    IF c \in Range(LowerLetters)
    THEN UpperLetters[CHOOSE i \in DOMAIN LowerLetters : LowerLetters[i] = c]
    ELSE c

\* str.upper()
Upper(s) == [i \in 1..Len(s) |-> UpperChar(s[i])]

\* The first k characters of s are [a-zA-Z_][a-zA-Z0-9_]*
IdentPrefix(s, k) ==
    /\ k >= 1
    /\ k <= Len(s)
    /\ IsHeadChar(s[1])
    /\ \A i \in 2..k : IsTailChar(s[i])

\* The whole string is an identifier: the pattern ^[A-Za-z_][A-Za-z0-9_]*$
\* where $ is the end of the text (pydantic's pattern engine).
PatternFullMatch(s) == IdentPrefix(s, Len(s))

\* re.match(r"^[a-zA-Z_][a-zA-Z0-9_]*$", s) of Python: without re.MULTILINE,
\* $ matches at the end of the string and also just before a newline that is
\* the last character of the string.
ReMatchDollarLoose(s) ==
    \/ IdentPrefix(s, Len(s))
    \/ /\ Len(s) >= 2
       /\ s[Len(s)] = "\n"
       /\ IdentPrefix(s, Len(s) - 1)

re_match(s) == ReMatchDollarLoose(s)

HTTPException(code, text) == [ok |-> FALSE, status |-> code, detail |-> text]

Ok(v) == [ok |-> TRUE, value |-> v]

\* src/app/api/spatial.py validate_table_name (the same body is repeated in
\* spatial_query.py and in CRUDSpatial._validate_table_name)
validate_table_name(table_name) ==
    IF ~re_match(table_name)
    THEN HTTPException(400, "Invalid table name")
    ELSE Ok(table_name)

----------------------------------------------------------------------------
(* The store.  What the database does with the statements it is sent:      *)
(* identifiers spliced into statement text are tokenised and folded to     *)
(* lower case; values bound as parameters are compared as they are.        *)

ColId == <<"i", "d">>
ColGeometry == <<"g", "e", "o", "m", "e", "t", "r", "y">>
ColName == <<"n", "a", "m", "e">>
ColDescription == <<"d", "e", "s", "c", "r", "i", "p", "t", "i", "o", "n">>

EmptyTables == [n \in {} |-> NoneObj]
EmptyRows == [i \in {} |-> NoneObj]

StoreError == [ok |-> FALSE]

\* A Python call that raised
Raised == [ok |-> FALSE]

RECURSIVE LStrip(_)
LStrip(s) == IF Len(s) > 0 /\ s[1] \in Whitespace THEN LStrip(Tail(s)) ELSE s

RECURSIVE RStrip(_)
RStrip(s) ==
    IF Len(s) > 0 /\ s[Len(s)] \in Whitespace
    THEN RStrip(SubSeq(s, 1, Len(s) - 1))
    ELSE s

\* An unquoted identifier in statement text: surrounding white space is
\* skipped, the token must be a plain identifier, and it is folded to lower
\* case.
StoreIdentifier(text) ==
    LET w == LStrip(RStrip(text))
    IN  IF PatternFullMatch(w) THEN Ok(Lower(w)) ELSE StoreError

RECURSIVE SplitOn(_, _)
SplitOn(s, c) ==
    IF \E i \in 1..Len(s) : s[i] = c
    THEN LET i == CHOOSE k \in 1..Len(s) :
                      s[k] = c /\ \A j \in 1..(k - 1) : s[j] # c
         IN  <<SubSeq(s, 1, i - 1)>> \o SplitOn(SubSeq(s, i + 1, Len(s)), c)
    ELSE <<s>>

\* The type strings of the requests: two the store knows and one it cannot
\* parse.
StoreParsesType(type) == type \in {"TEXT", "INTEGER", "SERIAL", "geometry"}

ColumnNames(cols) == {cols[i].name : i \in DOMAIN cols}

HasColumn(table, c) == c \in ColumnNames(table.cols)

Column(table, c) ==
    table.cols[CHOOSE i \in DOMAIN table.cols : table.cols[i].name = c]

\* The store after creating the table: its columns under their folded names,
\* no rows, the serial counter at 1.
StoreNewTable(T, identText, columns) ==
    LET id == StoreIdentifier(identText)
        folded == [i \in DOMAIN columns |->
                      [columns[i] EXCEPT !.name = StoreIdentifier(columns[i].name).value]]
        fresh == [cols |-> folded, rows |-> EmptyRows, nextId |-> 1]
    IN  [ok |-> TRUE,
         tables |-> [n \in DOMAIN T \cup {id.value} |->
                        IF n = id.value THEN fresh ELSE T[n]]]

\* Mutant: CREATE TABLE that replaces a table of the same name
StoreCreateTable_Replacing(T, identText, columns) ==
    IF \E i \in DOMAIN columns : ~StoreParsesType(columns[i].type)
    THEN StoreError
    ELSE StoreNewTable(T, identText, columns)

\* CREATE TABLE IF NOT EXISTS <identText> (<columns>)
StoreCreateTableIfNotExists(T, identText, columns) ==
    LET id == StoreIdentifier(identText)
    IN  IF \/ ~id.ok
           \/ \E i \in DOMAIN columns :
                 \/ ~StoreParsesType(columns[i].type)
                 \/ ~StoreIdentifier(columns[i].name).ok
        THEN StoreError                   \* syntax error
        ELSE IF id.value \in DOMAIN T
        THEN [ok |-> TRUE, tables |-> T]  \* NOTICE: relation exists, skipping
        ELSE IF \E i, j \in DOMAIN columns :
                   /\ i # j
                   /\ StoreIdentifier(columns[i].name).value
                        = StoreIdentifier(columns[j].name).value
        THEN StoreError                   \* column specified more than once
        ELSE StoreNewTable(T, identText, columns)

\* DROP TABLE IF EXISTS <text> CASCADE: the text is a comma-separated list of
\* identifiers to the store.
StoreDropTableIfExists(T, text) ==
    LET parts == SplitOn(text, ",")
    IN  IF \E i \in DOMAIN parts : ~StoreIdentifier(parts[i]).ok
        THEN StoreError
        ELSE LET gone == {StoreIdentifier(parts[i]).value : i \in DOMAIN parts}
             IN  [ok |-> TRUE,
                  tables |-> [n \in DOMAIN T \ gone |-> T[n]]]

UdtName(type) ==
    CASE type = "TEXT" -> "text"
      [] type = "INTEGER" -> "int4"
      [] type = "SERIAL" -> "int4"
      [] OTHER -> "geometry"

\* SELECT column_name, ..., is_nullable FROM information_schema.columns
\* WHERE table_name = :table_name  (a bound parameter: compared exactly)
StoreColumnsOf(T, name) ==
    IF name \in DOMAIN T
    THEN [i \in DOMAIN T[name].cols |->
             [column_name |-> T[name].cols[i].name,
              udt_name |-> UdtName(T[name].cols[i].type),
              is_nullable |-> IF T[name].cols[i].notnull THEN "NO" ELSE "YES"]]
    ELSE <<>>

\* A statement as the store receives it: the identifier text spliced into
\* it (NoIdent when the statement has none) and the bound parameters.
NoIdent == <<>>

Statement(k, identText, bound) == [kind |-> k, ident |-> identText, params |-> bound]

----------------------------------------------------------------------------
(* Dynamic table gateway: src/app/api/spatial_table.py *)

GeometryTypeLiteral ==
    {<<"P", "O", "I", "N", "T">>,
     <<"L", "I", "N", "E", "S", "T", "R", "I", "N", "G">>,
     <<"P", "O", "L", "Y", "G", "O", "N">>,
     <<"M", "U", "L", "T", "I", "P", "O", "I", "N", "T">>,
     <<"M", "U", "L", "T", "I", "L", "I", "N", "E", "S", "T", "R", "I", "N", "G">>,
     <<"M", "U", "L", "T", "I", "P", "O", "L", "Y", "G", "O", "N">>}

Response(code, content) == [status |-> code, body |-> content]

\* Mutant: the request patterns matched the way re.match does
SpatialTableCreateRequestValid_ReMatch(r) ==
    /\ re_match(r.table_name)
    /\ r.geometry_type \in GeometryTypeLiteral
    /\ \A i \in DOMAIN r.fields : re_match(r.fields[i].name)

\* FieldDefinition: name has pattern ^[a-zA-Z_][a-zA-Z0-9_]*$
FieldDefinitionValid(field) == PatternFullMatch(field.name)

\* SpatialTableCreateRequest: table_name pattern, geometry_type Literal,
\* every field a FieldDefinition
SpatialTableCreateRequestValid(r) ==
    /\ PatternFullMatch(r.table_name)
    /\ r.geometry_type \in GeometryTypeLiteral
    /\ \A i \in DOMAIN r.fields : FieldDefinitionValid(r.fields[i])

\* columns = ["id SERIAL PRIMARY KEY", *field_sql, "geometry geometry(..) NOT NULL"]
CreateColumns(r) ==
    <<[name |-> ColId, type |-> "SERIAL", notnull |-> TRUE]>>
    \o [i \in DOMAIN r.fields |->
           [name |-> r.fields[i].name,
            type |-> r.fields[i].type,
            notnull |-> ~r.fields[i].nullable]]
    \o <<[name |-> ColGeometry, type |-> "geometry", notnull |-> TRUE,
          geometry_type |-> Upper(r.geometry_type), srid |-> r.srid]>>

\* The handler: result is the new store, the response and the statement sent.
create_spatial_table(T, r) ==
    IF ~SpatialTableCreateRequestValid(r)
    THEN [tables |-> T, resp |-> Response(422, "validation error"), sent |-> NoneObj]
    ELSE LET table_name == Lower(r.table_name)
             geometry_type == Upper(r.geometry_type)
             done == StoreCreateTableIfNotExists(T, table_name, CreateColumns(r))
             stmt == Statement("CREATE TABLE IF NOT EXISTS", table_name, <<>>)
         IN  IF ~done.ok
             THEN [tables |-> T,
                   resp |-> Response(400, "Error creating table"),
                   sent |-> stmt]
             ELSE [tables |-> done.tables,
                   resp |-> Response(201,
                               [table |-> table_name,
                                geometry_type |-> geometry_type,
                                srid |-> r.srid]),
                   sent |-> stmt]

describe_spatial_table(T, table_name) ==
    LET columns == StoreColumnsOf(T, table_name)
        stmt == Statement("SELECT information_schema.columns", NoIdent, <<table_name>>)
    IN  IF columns = <<>>
        THEN [tables |-> T, resp |-> Response(404, "not found"), sent |-> stmt]
        ELSE [tables |-> T,
              resp |-> Response(200, [table |-> table_name, columns |-> columns]),
              sent |-> stmt]

delete_spatial_table(T, table_name) ==
    LET done == StoreDropTableIfExists(T, table_name)
        stmt == Statement("DROP TABLE IF EXISTS", table_name, <<>>)
    IN  IF ~done.ok
        THEN [tables |-> T, resp |-> Response(400, "Error deleting table"), sent |-> stmt]
        ELSE [tables |-> done.tables,
              resp |-> Response(200, [deleted |-> table_name]),
              sent |-> stmt]

----------------------------------------------------------------------------
(* GeoJSON values.  A JSON value is a number or a list, tagged, so that     *)
(* isinstance and len of the validators are computed on what was sent.      *)

Num(v) == [t |-> "num", n |-> v]
List(items) == [t |-> "list", xs |-> items]

IsList(j) == j.t = "list"
IsNum(j) == j.t = "num"

TPoint == <<"P", "o", "i", "n", "t">>
TLineString == <<"L", "i", "n", "e", "S", "t", "r", "i", "n", "g">>
TPolygon == <<"P", "o", "l", "y", "g", "o", "n">>
TMultiPoint == <<"M", "u", "l", "t", "i", "P", "o", "i", "n", "t">>
TMultiLineString ==
    <<"M", "u", "l", "t", "i", "L", "i", "n", "e", "S", "t", "r", "i", "n", "g">>
TMultiPolygon == <<"M", "u", "l", "t", "i", "P", "o", "l", "y", "g", "o", "n">>

GeoJSONTypes ==
    {TPoint, TLineString, TPolygon, TMultiPoint, TMultiLineString, TMultiPolygon}

\* The first result that is not "ok" in a sequence of check results: the
\* exception a Python for loop over the checks raises first.
FirstFailure(results) ==
    IF \A i \in DOMAIN results : results[i] = "ok"
    THEN "ok"
    ELSE results[CHOOSE i \in DOMAIN results :
                    /\ results[i] # "ok"
                    /\ \A j \in 1..(i - 1) : results[j] = "ok"]

\* Mutant: the closure test left out
RingCheck_NoClosure(ring) ==
    IF ~IsList(ring) THEN "TypeError"
    ELSE IF Len(ring.xs) < 4 THEN "ValueError"
    ELSE "ok"

\* len(ring) < 4, then ring[0] != ring[-1]; len of a number is a TypeError
RingCheck(ring) ==
    IF ~IsList(ring) THEN "TypeError"
    ELSE IF Len(ring.xs) < 4 THEN "ValueError"
    ELSE IF ring.xs[1] # ring.xs[Len(ring.xs)] THEN "ValueError"
    ELSE "ok"

RingsCheck(rings) == FirstFailure([i \in DOMAIN rings |-> RingCheck(rings[i])])

LineCheck(line) ==
    IF ~IsList(line) THEN "TypeError"
    ELSE IF Len(line.xs) < 2 THEN "ValueError"
    ELSE "ok"

PolyCheck(poly) ==
    IF ~IsList(poly) \/ Len(poly.xs) < 1 THEN "ValueError"
    ELSE RingsCheck(poly.xs)

\* GeometryBase.validate_geometry: "ok", or the exception it raises
validate_geometry(g) ==
    LET geom_type == g.type
        coords == g.coordinates
    IN  CASE geom_type = TPoint ->
               IF /\ IsList(coords)
                  /\ Len(coords.xs) = 2
                  /\ \A i \in DOMAIN coords.xs : IsNum(coords.xs[i])
               THEN "ok" ELSE "ValueError"
          [] geom_type = TPolygon ->
               IF ~IsList(coords) \/ Len(coords.xs) = 0 \/ ~IsList(coords.xs[1])
               THEN "ValueError"
               ELSE RingsCheck(coords.xs)
          [] geom_type = TLineString ->
               IF ~IsList(coords) \/ Len(coords.xs) < 2
               THEN "ValueError" ELSE "ok"
          [] geom_type = TMultiPoint ->
               IF ~IsList(coords) \/ Len(coords.xs) < 1
               THEN "ValueError" ELSE "ok"
          [] geom_type = TMultiLineString ->
               IF ~IsList(coords) \/ Len(coords.xs) < 1
               THEN "ValueError"
               ELSE FirstFailure([i \in DOMAIN coords.xs |-> LineCheck(coords.xs[i])])
          [] geom_type = TMultiPolygon ->
               IF ~IsList(coords) \/ Len(coords.xs) < 1
               THEN "ValueError"
               ELSE FirstFailure([i \in DOMAIN coords.xs |-> PolyCheck(coords.xs[i])])
          [] OTHER -> "ok"

----------------------------------------------------------------------------
(* shapely.geometry.shape and geoalchemy2.shape.from_shape, as            *)
(* CRUDSpatial.create and CRUDSpatial.update call them.                   *)

IsPosition(j) ==
    /\ IsList(j)
    /\ Len(j.xs) \in {2, 3}
    /\ \A i \in DOMAIN j.xs : IsNum(j.xs[i])

IsPositions(j, least) ==
    /\ IsList(j)
    /\ Len(j.xs) >= least
    /\ \A i \in DOMAIN j.xs : IsPosition(j.xs[i])

\* A linear ring is closed by repeating its first position when it is open.
CloseRing(ring) ==
    IF ring.xs[1] = ring.xs[Len(ring.xs)]
    THEN ring
    ELSE List(Append(ring.xs, ring.xs[1]))

IsRingInput(j) == IsPositions(j, 3) /\ Len(CloseRing(j).xs) >= 4

IsPolygonInput(j) ==
    /\ IsList(j)
    /\ Len(j.xs) >= 1
    /\ \A i \in DOMAIN j.xs : IsRingInput(j.xs[i])

ClosePolygon(j) == List([i \in DOMAIN j.xs |-> CloseRing(j.xs[i])])

\* _is_coordinates_empty: an empty list, or a list of nothing but empty ones
RECURSIVE _is_coordinates_empty(_)
_is_coordinates_empty(coordinates) ==
    /\ IsList(coordinates)
    /\ \A i \in DOMAIN coordinates.xs : _is_coordinates_empty(coordinates.xs[i])

\* shape(): coordinates that are empty build the empty geometry of the type;
\* otherwise it dispatches on the lower-cased type; the result is the built
\* geometry, or an exception.
shape(g) ==
    LET geom_type == Lower(g.type)
        c == g.coordinates
        built(kind, coords) == Ok([kind |-> kind, coordinates |-> coords])
        known == {ty \in GeoJSONTypes : Lower(ty) = geom_type}
    IN  CASE _is_coordinates_empty(c) ->
               IF known = {} THEN Raised
               ELSE built(CHOOSE ty \in known : TRUE, List(<<>>))
          [] geom_type = Lower(TPoint) ->
               IF IsPosition(c) THEN built(TPoint, c) ELSE Raised
          [] geom_type = Lower(TLineString) ->
               IF IsPositions(c, 2) THEN built(TLineString, c) ELSE Raised
          [] geom_type = Lower(TPolygon) ->
               IF IsPolygonInput(c) THEN built(TPolygon, ClosePolygon(c)) ELSE Raised
          [] geom_type = Lower(TMultiPoint) ->
               IF IsPositions(c, 1) THEN built(TMultiPoint, c) ELSE Raised
          [] geom_type = Lower(TMultiLineString) ->
               IF /\ IsList(c)
                  /\ Len(c.xs) >= 1
                  /\ \A i \in DOMAIN c.xs : IsPositions(c.xs[i], 2)
               THEN built(TMultiLineString, c) ELSE Raised
          [] geom_type = Lower(TMultiPolygon) ->
               IF /\ IsList(c)
                  /\ Len(c.xs) >= 1
                  /\ \A i \in DOMAIN c.xs : IsPolygonInput(c.xs[i])
               THEN built(TMultiPolygon,
                          List([i \in DOMAIN c.xs |-> ClosePolygon(c.xs[i])]))
               ELSE Raised
          [] OTHER -> Raised        \* GeometryTypeError: unknown type

\* from_shape(geom_shape, srid=4326)
from_shape(geom_shape, srid) ==
    [kind |-> geom_shape.kind, srid |-> srid, coordinates |-> geom_shape.coordinates]

\* Mutant: the type as the store names it, in upper case
GeometryOut_StoreType(wkb) == [type |-> Upper(wkb.kind), coordinates |-> wkb.coordinates]

\* mapping(to_shape(geometry)), then tuples_to_lists
GeometryOut(wkb) == [type |-> wkb.kind, coordinates |-> wkb.coordinates]

----------------------------------------------------------------------------
(* Rows.  A row is a function from the table's column names to values.     *)

GeometryColumn(table) == Column(table, ColGeometry)

\* Column keys of the statement that the reflected table does not have:
\* SQLAlchemy refuses to compile the statement (Unconsumed column names).
Unconsumed(table, values) == {c \in DOMAIN values : ~HasColumn(table, c)}

\* The store's checks on the values written: the geometry column's type
\* and SRID, and text into text columns.
StoreAcceptsValues(table, values) ==
    /\ ColGeometry \in DOMAIN values =>
          /\ Lower(values[ColGeometry].kind) = Lower(GeometryColumn(table).geometry_type)
          /\ values[ColGeometry].srid = GeometryColumn(table).srid
    /\ \A c \in DOMAIN values \ {ColGeometry} : Column(table, c).type = "TEXT"

\* INSERT INTO <table> (..) VALUES (..) RETURNING *
StoreInsert(T, name, values) ==
    LET table == T[name]
        row == [c \in ColumnNames(table.cols) |->
                   IF c = ColId THEN table.nextId
                   ELSE IF c \in DOMAIN values THEN values[c]
                   ELSE None]
    IN  IF \/ ~StoreAcceptsValues(table, values)
           \/ \E i \in DOMAIN table.cols :
                 /\ table.cols[i].notnull
                 /\ table.cols[i].name \notin DOMAIN values \cup {ColId}
        THEN StoreError
        ELSE [ok |-> TRUE,
              row |-> row,
              tables |-> [T EXCEPT ![name] =
                             [@ EXCEPT !.rows = [i \in DOMAIN @ \cup {table.nextId} |->
                                                    IF i = table.nextId THEN row ELSE @[i]],
                                       !.nextId = @ + 1]]]

\* SELECT * FROM <table> WHERE id = :id
StoreSelectById(T, name, id) ==
    IF id \in DOMAIN T[name].rows THEN T[name].rows[id] ELSE NoneObj

\* Mutant: UPDATE without its WHERE clause
StoreUpdate_NoWhere(T, name, id, values) ==
    LET table == T[name]
        set(row) == [c \in DOMAIN row |-> IF c \in DOMAIN values THEN values[c] ELSE row[c]]
    IN  IF id \notin DOMAIN table.rows
        THEN [ok |-> TRUE, row |-> NoneObj, tables |-> T]
        ELSE [ok |-> TRUE,
              row |-> set(table.rows[id]),
              tables |-> [T EXCEPT ![name].rows = [i \in DOMAIN @ |-> set(@[i])]]]

\* UPDATE <table> SET .. WHERE id = :id RETURNING *
StoreUpdate(T, name, id, values) ==
    LET table == T[name]
    IN  IF id \notin DOMAIN table.rows
        THEN [ok |-> TRUE, row |-> NoneObj, tables |-> T]
        ELSE IF ~StoreAcceptsValues(table, values)
        THEN StoreError
        ELSE LET row == [c \in DOMAIN table.rows[id] |->
                            IF c \in DOMAIN values THEN values[c] ELSE table.rows[id][c]]
             IN  [ok |-> TRUE,
                  row |-> row,
                  tables |-> [T EXCEPT ![name].rows[id] = row]]

\* DELETE FROM <table> WHERE id = :id RETURNING *
StoreDelete(T, name, id) ==
    LET table == T[name]
    IN  IF id \notin DOMAIN table.rows
        THEN [ok |-> TRUE, row |-> NoneObj, tables |-> T]
        ELSE [ok |-> TRUE,
              row |-> table.rows[id],
              tables |-> [T EXCEPT ![name].rows =
                             [i \in DOMAIN @ \ {id} |-> @[i]]]]

----------------------------------------------------------------------------
(* Feature repository and its routes: src/app/crud/spatial.py,            *)
(* src/app/api/spatial.py                                                  *)

\* serialize_spatial_feature: a column the row lacks reads as None; given
\* None for the row, every field reads as None and to_shape(None) raises.
serialize_spatial_feature(db_obj) ==
    LET get(field) == IF field \in DOMAIN db_obj THEN db_obj[field] ELSE None
    IN  IF db_obj = NoneObj
        THEN Raised
        ELSE [id |-> get(ColId),
              name |-> get(ColName),
              description |-> get(ColDescription),
              geometry |-> GeometryOut(db_obj[ColGeometry])]

\* response_model=SpatialOut: name is a required str, geometry a GeometryBase
SpatialOutValid(out) ==
    /\ out.name # None
    /\ validate_geometry(out.geometry) = "ok"

Respond(T, code, out, stmt) ==
    IF out = Raised
    THEN [tables |-> T, resp |-> Response(500, "Internal Server Error"), sent |-> stmt]
    ELSE IF SpatialOutValid(out)
    THEN [tables |-> T, resp |-> Response(code, out), sent |-> stmt]
    ELSE [tables |-> T, resp |-> Response(500, "response validation"), sent |-> stmt]

Fail(T, code, text, stmt) ==
    [tables |-> T, resp |-> Response(code, text), sent |-> stmt]

\* The request body against SpatialCreate / SpatialUpdate: "ok", or the
\* exception the model validation ends with.
SpatialCreateCheck(feature) ==
    IF feature.name = None \/ feature.geometry = NoneObj
    THEN "ValueError"
    ELSE validate_geometry(feature.geometry)

SpatialUpdateCheck(feature) ==
    IF feature.geometry = NoneObj THEN "ok" ELSE validate_geometry(feature.geometry)

\* Mutant: None fields written as well
FieldDict_KeepsNone(feature, geom_wkb) ==
    LET keys == (IF geom_wkb # NoneObj THEN {ColGeometry} ELSE {})
                \cup {ColName, ColDescription}
    IN  [c \in keys |->
            IF c = ColGeometry THEN geom_wkb
            ELSE IF c = ColName THEN feature.name
            ELSE feature.description]

\* The dict of non-None fields both create and update build
FieldDict(feature, geom_wkb) ==
    LET keys == (IF geom_wkb # NoneObj THEN {ColGeometry} ELSE {})
                \cup (IF feature.name # None THEN {ColName} ELSE {})
                \cup (IF feature.description # None THEN {ColDescription} ELSE {})
    IN  [c \in keys |->
            IF c = ColGeometry THEN geom_wkb
            ELSE IF c = ColName THEN feature.name
            ELSE feature.description]

SRID == 4326

\* CRUDSpatial.create, after the table was reflected
CRUDSpatial_create(T, feature, table_name) ==
    LET geom_shape == shape(feature.geometry)
    IN  IF ~geom_shape.ok
        THEN Fail(T, 422, "Invalid geometry", NoneObj)
        ELSE LET insert_dict == FieldDict(feature, from_shape(geom_shape.value, SRID))
                 stmt == Statement("INSERT", table_name, insert_dict)
             IN  IF Unconsumed(T[table_name], insert_dict) # {}
                 THEN Fail(T, 500, "Database insert failed", NoneObj)
                 ELSE LET done == StoreInsert(T, table_name, insert_dict)
                      IN  IF ~done.ok
                          THEN Fail(T, 500, "Database insert failed", stmt)
                          ELSE Respond(done.tables, 201,
                                       serialize_spatial_feature(done.row), stmt)

\* POST /features/{table_name}/
create_feature(T, table_name, feature) ==
    LET body == SpatialCreateCheck(feature)
        name == validate_table_name(table_name)
    IN  IF body = "ValueError" THEN Fail(T, 422, "validation error", NoneObj)
        ELSE IF body = "TypeError" THEN Fail(T, 500, "Internal Server Error", NoneObj)
        ELSE IF ~name.ok THEN Fail(T, name.status, name.detail, NoneObj)
        ELSE IF table_name \notin DOMAIN T
        THEN Fail(T, 404, "Table does not exist", NoneObj)
        ELSE CRUDSpatial_create(T, feature, table_name)

\* GET /features/{table_name}/{feature_id}
read_feature(T, table_name, feature_id) ==
    LET name == validate_table_name(table_name)
        stmt == Statement("SELECT", table_name, <<feature_id>>)
    IN  IF ~name.ok THEN Fail(T, name.status, name.detail, NoneObj)
        ELSE IF table_name \notin DOMAIN T
        THEN Fail(T, 404, "Table does not exist", NoneObj)
        ELSE LET db_obj == StoreSelectById(T, table_name, feature_id)
             IN  IF db_obj = NoneObj
                 THEN Fail(T, 404, "Feature not found", stmt)
                 ELSE Respond(T, 200, serialize_spatial_feature(db_obj), stmt)

\* CRUDSpatial.update, after the row was found
CRUDSpatial_update(T, db_obj, feature, table_name) ==
    LET geom_shape == IF feature.geometry = NoneObj THEN NoneObj
                      ELSE shape(feature.geometry)
        selected == Statement("SELECT", table_name, <<db_obj[ColId]>>)
    IN  IF geom_shape # NoneObj /\ ~geom_shape.ok
        THEN Fail(T, 422, "Invalid geometry", selected)
        ELSE LET geom_wkb == IF geom_shape = NoneObj THEN NoneObj
                             ELSE from_shape(geom_shape.value, SRID)
                 update_dict == FieldDict(feature, geom_wkb)
                 stmt == Statement("UPDATE", table_name, update_dict)
             IN  IF DOMAIN update_dict = {}
                 THEN Fail(T, 400, "No fields to update.", selected)
                 ELSE IF Unconsumed(T[table_name], update_dict) # {}
                 THEN Fail(T, 500, "Database update failed", selected)
                 ELSE LET done == StoreUpdate(T, table_name, db_obj[ColId], update_dict)
                      IN  IF ~done.ok
                          THEN Fail(T, 500, "Database update failed", stmt)
                          ELSE Respond(done.tables, 200,
                                       serialize_spatial_feature(done.row), stmt)

\* update_feature up to its existence check: the failure it ends with, or
\* the row crud_spatial.get read
update_feature_get(T, table_name, feature_id, feature) ==
    LET body == SpatialUpdateCheck(feature)
        name == validate_table_name(table_name)
        ends(result) == [failed |-> TRUE, result |-> result]
    IN  IF body = "ValueError" THEN ends(Fail(T, 422, "validation error", NoneObj))
        ELSE IF body = "TypeError" THEN ends(Fail(T, 500, "Internal Server Error", NoneObj))
        ELSE IF ~name.ok THEN ends(Fail(T, name.status, name.detail, NoneObj))
        ELSE IF table_name \notin DOMAIN T
        THEN ends(Fail(T, 404, "Table does not exist", NoneObj))
        ELSE LET db_obj == StoreSelectById(T, table_name, feature_id)
             IN  IF db_obj = NoneObj
                 THEN ends(Fail(T, 404, "Feature not found",
                                Statement("SELECT", table_name, <<feature_id>>)))
                 ELSE [failed |-> FALSE, db_obj |-> db_obj]

\* PUT /features/{table_name}/{feature_id}
update_feature(T, table_name, feature_id, feature) ==
    LET got == update_feature_get(T, table_name, feature_id, feature)
    IN  IF got.failed
        THEN got.result
        ELSE CRUDSpatial_update(T, got.db_obj, feature, table_name)

\* DELETE /features/{table_name}/{feature_id}
delete_feature(T, table_name, feature_id) ==
    LET name == validate_table_name(table_name)
        stmt == Statement("DELETE", table_name, <<feature_id>>)
    IN  IF ~name.ok THEN Fail(T, name.status, name.detail, NoneObj)
        ELSE IF table_name \notin DOMAIN T
        THEN Fail(T, 404, "Table does not exist", NoneObj)
        ELSE LET done == StoreDelete(T, table_name, feature_id)
             IN  IF done.row = NoneObj
                 THEN Fail(T, 404, "Feature not found", stmt)
                 ELSE Respond(done.tables, 200,
                              serialize_spatial_feature(done.row), stmt)

----------------------------------------------------------------------------
(* Requests *)

MaxId == 2

Nt == <<"t">>
NT == <<"T">>
Nu == <<"u">>
Nv == <<"v">>
NtNewline == <<"t", "\n">>
NtHyphen == <<"t", "-">>
NtCommaU == <<"v", ",", "t">>
N1t == <<"1", "t">>

Field(n, ty, nul) == [name |-> n, type |-> ty, nullable |-> nul]

ColLabel == <<"l", "a", "b", "e", "l">>

NoFields == <<>>
NameFields == <<Field(ColName, "TEXT", FALSE), Field(ColDescription, "TEXT", TRUE)>>
LabelFields == NameFields \o <<Field(ColLabel, "INTEGER", TRUE)>>
BadTypeFields == <<Field(ColLabel, "VARCHAR(", TRUE)>>
BadNameFields == <<Field(<<"l", "-">>, "TEXT", TRUE)>>
DuplicateFields == <<Field(ColId, "INTEGER", TRUE)>>

GPoint == <<"P", "O", "I", "N", "T">>
GPolygon == <<"P", "O", "L", "Y", "G", "O", "N">>

TableRequest(n, gt, sr, fs) ==
    [op |-> "create_spatial_table", table_name |-> n, geometry_type |-> gt,
     srid |-> sr, fields |-> fs]

\* A request SRID other than the one from_shape stamps on every geometry
OtherSRID == SRID + 1

TableRequests ==
    {TableRequest(Nt, GPoint, SRID, NoFields),
     TableRequest(Nt, GPoint, SRID, LabelFields),
     TableRequest(Nt, GPolygon, SRID, NameFields),
     TableRequest(Nt, GPoint, OtherSRID, LabelFields),
     TableRequest(Nt, GPoint, SRID, BadTypeFields),
     TableRequest(Nt, GPoint, SRID, BadNameFields),
     TableRequest(Nt, GPoint, SRID, DuplicateFields),
     TableRequest(Nt, Lower(GPoint), SRID, NoFields),
     TableRequest(Nt, <<"C", "I", "R", "C", "L", "E">>, SRID, NoFields),
     TableRequest(NT, GPoint, SRID, LabelFields),
     TableRequest(Nu, GPoint, SRID, NoFields),
     TableRequest(NtNewline, GPoint, SRID, NoFields),
     TableRequest(NtHyphen, GPoint, SRID, NoFields),
     TableRequest(N1t, GPoint, SRID, NoFields)}

TableNames == {Nt, NT, Nu, Nv, NtNewline, NtHyphen, NtCommaU}

\* Positions and rings of the request geometries
Pos(x, y) == List(<<Num(x), Num(y)>>)
PA == Pos(1, 2)
PB == Pos(3, 4)
PC == Pos(5, 6)
PD == Pos(7, 8)
ClosedRing == List(<<PA, PB, PC, PA>>)
OpenRing == List(<<PA, PB, PC, PD>>)
ShortRing == List(<<PA, PB, PA>>)

Geometry(ty, c) == [type |-> ty, coordinates |-> c]

\* Geometries whose rings break the polygon ring rule
BadRingGeometries ==
    {Geometry(TPolygon, List(<<OpenRing>>)),
     Geometry(TPolygon, List(<<ShortRing>>)),
     Geometry(TPolygon, List(<<List(<<>>)>>)),
     Geometry(TPolygon, List(<<ClosedRing, OpenRing>>)),
     Geometry(TPolygon, List(<<ClosedRing, ShortRing>>)),
     Geometry(TMultiPolygon, List(<<List(<<ShortRing>>)>>)),
     Geometry(TMultiPolygon, List(<<List(<<ClosedRing>>), List(<<ClosedRing, OpenRing>>)>>))}

\* Geometries breaking another rule of their type
BadRuleGeometries ==
    {Geometry(TPoint, List(<<>>)),
     Geometry(TPoint, List(<<Num(1), Num(2), Num(3)>>)),
     Geometry(TLineString, List(<<PA>>)),
     Geometry(TMultiPoint, List(<<>>)),
     Geometry(TMultiLineString, List(<<List(<<PA>>)>>)),
     Geometry(TPolygon, List(<<>>))}

\* Type strings that are none of the six
OtherTypeGeometries ==
    {Geometry(Lower(TPoint), PA),
     Geometry(Lower(TPolygon), List(<<>>)),
     Geometry(<<"C", "i", "r", "c", "l", "e">>, PA)}

GoodGeometries ==
    {Geometry(TPoint, PA),
     Geometry(TPoint, PB),
     Geometry(TPolygon, List(<<ClosedRing>>)),
     Geometry(TLineString, List(<<PA, PB>>)),
     Geometry(TMultiPoint, List(<<PA>>)),
     Geometry(TMultiLineString, List(<<List(<<PA, PB>>)>>)),
     Geometry(TMultiPolygon, List(<<List(<<ClosedRing>>)>>))}

\* A ring that is a number where a list is expected
MistypedGeometries == {Geometry(TPolygon, List(<<ClosedRing, Num(5)>>))}

Geometries ==
    GoodGeometries \cup BadRingGeometries \cup BadRuleGeometries
    \cup OtherTypeGeometries \cup MistypedGeometries

Feature(n, d, g) == [name |-> n, description |-> d, geometry |-> g]

CreateRequests ==
    {[op |-> "create_feature", table_name |-> Nt, feature |-> Feature("A", None, g)] :
        g \in Geometries}
    \cup {[op |-> "create_feature", table_name |-> Nt,
           feature |-> Feature("A", "e", Geometry(TPoint, PA))],
          [op |-> "create_feature", table_name |-> Nt,
           feature |-> Feature(None, None, Geometry(TPoint, PA))]}
    \cup {[op |-> "create_feature", table_name |-> n,
           feature |-> Feature("A", None, Geometry(TPoint, PA))] :
            n \in {NT, Nu, Nv, NtNewline, NtHyphen}}

UpdateBodies ==
    {Feature(n, d, g) : n \in {None, "B"}, d \in {None, "e"},
                        g \in {NoneObj, Geometry(TPoint, PB)}}
    \cup {Feature("B", None, g) : g \in BadRingGeometries \cup OtherTypeGeometries}
    \cup {[name |-> None, description |-> None, geometry |-> NoneObj, colour |-> "red"]}

UpdateRequests ==
    {[op |-> "update_feature", table_name |-> Nt, feature_id |-> i, feature |-> f] :
        i \in 1..MaxId, f \in UpdateBodies}
    \cup {[op |-> "update_feature", table_name |-> n, feature_id |-> 1,
           feature |-> Feature("B", None, NoneObj)] : n \in {NT, Nv, NtNewline, NtHyphen}}

IdRequests(o) ==
    {[op |-> o, table_name |-> Nt, feature_id |-> i] : i \in 1..MaxId}
    \cup {[op |-> o, table_name |-> n, feature_id |-> 1] : n \in {NT, Nv, NtHyphen}}

----------------------------------------------------------------------------
(* Actions: one per route *)

\* A request is served from arrival to response in one step; the gateway
\* keeps nothing between requests.
Handle(r, result) ==
    /\ req = NoneObj
    /\ before' = tables
    /\ req' = r
    /\ tables' = result.tables
    /\ resp' = result.resp
    /\ sent' = result.sent
    /\ UNCHANGED <<arg, ret, pc, local, held, tmpfiles>>

CreateSpatialTable ==
    \E r \in TableRequests : Handle(r, create_spatial_table(tables, r))

DescribeSpatialTable ==
    \E n \in TableNames :
        Handle([op |-> "describe_spatial_table", table_name |-> n],
               describe_spatial_table(tables, n))

DeleteSpatialTable ==
    \E n \in TableNames :
        Handle([op |-> "delete_spatial_table", table_name |-> n],
               delete_spatial_table(tables, n))

\* The serial counter is capped: no insert is tried once MaxId ids were given.
CreateFeature ==
    \E r \in CreateRequests :
        /\ r.table_name \in DOMAIN tables => tables[r.table_name].nextId <= MaxId
        /\ Handle(r, create_feature(tables, r.table_name, r.feature))

ReadFeature ==
    \E r \in IdRequests("read_feature") :
        Handle(r, read_feature(tables, r.table_name, r.feature_id))

UpdateFeature ==
    \E r \in UpdateRequests :
        Handle(r, update_feature(tables, r.table_name, r.feature_id, r.feature))

DeleteFeature ==
    \E r \in IdRequests("delete_feature") :
        Handle(r, delete_feature(tables, r.table_name, r.feature_id))

\* The response has gone out: the request is over.
Complete ==
    /\ req # NoneObj
    /\ req' = NoneObj
    /\ resp' = NoneObj
    /\ sent' = NoneObj
    /\ before' = tables
    /\ UNCHANGED <<tables, arg, ret, pc, local, held, tmpfiles>>

\* One request at a time: no concurrent client
NoClients == [c \in {} |-> NoneObj]

Init ==
    /\ tables = EmptyTables
    /\ before = EmptyTables
    /\ req = NoneObj
    /\ resp = NoneObj
    /\ sent = NoneObj
    /\ arg = <<>>
    /\ ret = NoneObj
    /\ pc = NoClients
    /\ local = NoClients
    /\ held = 0
    /\ tmpfiles = {}

Next ==
    \/ CreateSpatialTable
    \/ DescribeSpatialTable
    \/ DeleteSpatialTable
    \/ CreateFeature
    \/ ReadFeature
    \/ UpdateFeature
    \/ DeleteFeature
    \/ Complete

Spec == Init /\ [][Next]_vars

----------------------------------------------------------------------------
(* Bounded input strings for the checks of the pure functions *)

MaxLen == 3

\* The characters the bounded strings are drawn from: a lower-case and an
\* upper-case letter, a digit, the underscore, and characters outside the
\* identifier pattern (hyphen, comma, newline).
Alphabet == {"t", "T", "1", "_", "-", ",", "\n"}

Strings == UNION {[1..n -> Alphabet] : n \in 0..MaxLen}

----------------------------------------------------------------------------
InitV ==
    /\ tables = EmptyTables
    /\ before = EmptyTables
    /\ req = NoneObj
    /\ resp = NoneObj
    /\ sent = NoneObj
    /\ arg \in Strings
    /\ ret = NoneObj
    /\ pc = NoClients
    /\ local = NoClients
    /\ held = 0
    /\ tmpfiles = {}

CallValidate ==
    /\ ret = NoneObj
    /\ ret' = validate_table_name(arg)
    /\ UNCHANGED <<tables, before, req, resp, sent, arg, pc, local, held, tmpfiles>>

NextV == CallValidate

SpecValidate == InitV /\ [][NextV]_vars

----------------------------------------------------------------------------
(* Concurrent requests on the feature routes.  Every request has its own   *)
(* session; each statement it sends is one step, and the statements of     *)
(* other requests may fall between its steps.                              *)

Clients == {"c1", "c2"}

\* get_db: db = SessionLocal()
get_db_open(n) == n + 1

\* Mutant: the session closed only when the handler returned
get_db_close_OnReturn(n, response) ==
    IF response.status \in {200, 201} THEN n - 1 ELSE n

\* get_db: finally: db.close(), whatever the handler's outcome
get_db_close(n, response) == n - 1

\* A client between requests keeps the record of its last one
Resting ==
    [req |-> NoneObj, db_obj |-> NoneObj, seen |-> NoneObj,
     resp |-> NoneObj, sent |-> NoneObj]

\* The store the concurrent requests start from: a POLYGON table with the
\* rows two creates left in it, a polygon and an empty polygon.
RaceStore ==
    LET made == create_spatial_table(
                    EmptyTables, TableRequest(Nt, GPolygon, SRID, NameFields)).tables
        one == create_feature(
                   made, Nt, Feature("A", None, Geometry(TPolygon, List(<<ClosedRing>>)))).tables
    IN  create_feature(
            one, Nt, Feature("A", None, Geometry(Lower(TPolygon), List(<<>>)))).tables

RaceRequests ==
    {[op |-> "update_feature", table_name |-> Nt, feature_id |-> i,
      feature |-> Feature("B", None, NoneObj)] : i \in 1..MaxId}
    \cup {[op |-> "update_feature", table_name |-> Nt, feature_id |-> 1,
           feature |-> Feature("B", None, Geometry(TPolygon, List(<<OpenRing>>)))]}
    \cup {[op |-> o, table_name |-> Nt, feature_id |-> i] :
            o \in {"delete_feature", "read_feature"}, i \in 1..MaxId}
    \cup {[op |-> "read_feature", table_name |-> n, feature_id |-> 1] : n \in {Nv, NtHyphen}}

\* The request arrives and its session is opened
Begin(c) ==
    \E r \in RaceRequests :
        /\ pc[c] = "idle"
        /\ pc' = [pc EXCEPT ![c] = "open"]
        /\ local' = [local EXCEPT ![c] = [Resting EXCEPT !.req = r]]
        /\ held' = get_db_open(held)
        /\ UNCHANGED <<tables, before, req, resp, sent, arg, ret, tmpfiles>>

\* A step of client c that ends its handler with the given result
Responds(c, result) ==
    /\ pc' = [pc EXCEPT ![c] = "responded"]
    /\ local' = [local EXCEPT ![c].resp = result.resp,
                              ![c].sent = result.sent,
                              ![c].seen = tables]
    /\ tables' = result.tables
    /\ UNCHANGED <<before, req, resp, sent, arg, ret, held, tmpfiles>>

\* update_feature: validate_table_name and crud_spatial.get
UpdateGet(c) ==
    /\ pc[c] = "open"
    /\ local[c].req.op = "update_feature"
    /\ LET r == local[c].req
           got == update_feature_get(tables, r.table_name, r.feature_id, r.feature)
       IN  IF got.failed
           THEN Responds(c, got.result)
           ELSE /\ pc' = [pc EXCEPT ![c] = "got"]
                /\ local' = [local EXCEPT ![c].db_obj = got.db_obj, ![c].seen = tables]
                /\ UNCHANGED <<tables, before, req, resp, sent, arg, ret, held, tmpfiles>>

\* update_feature: crud_spatial.update and serialize_spatial_feature
UpdateWrite(c) ==
    /\ pc[c] = "got"
    /\ LET r == local[c].req
       IN  Responds(c, CRUDSpatial_update(tables, local[c].db_obj, r.feature, r.table_name))

\* delete_feature: one DELETE .. RETURNING statement
Remove(c) ==
    /\ pc[c] = "open"
    /\ local[c].req.op = "delete_feature"
    /\ Responds(c, delete_feature(tables, local[c].req.table_name, local[c].req.feature_id))

\* read_feature: one SELECT statement
Get(c) ==
    /\ pc[c] = "open"
    /\ local[c].req.op = "read_feature"
    /\ Responds(c, read_feature(tables, local[c].req.table_name, local[c].req.feature_id))

\* The response has gone out and get_db runs to its end
End(c) ==
    /\ pc[c] = "responded"
    /\ pc' = [pc EXCEPT ![c] = "idle"]
    /\ held' = get_db_close(held, local[c].resp)
    /\ UNCHANGED <<tables, before, req, resp, sent, arg, ret, local, tmpfiles>>

InitRace ==
    /\ tables = RaceStore
    /\ before = EmptyTables
    /\ req = NoneObj
    /\ resp = NoneObj
    /\ sent = NoneObj
    /\ arg = <<>>
    /\ ret = NoneObj
    /\ pc = [c \in Clients |-> "idle"]
    /\ local = [c \in Clients |-> Resting]
    /\ held = 0
    /\ tmpfiles = {}

NextRace ==
    \/ \E c \in Clients : Begin(c)
    \/ \E c \in Clients : UpdateGet(c)
    \/ \E c \in Clients : UpdateWrite(c)
    \/ \E c \in Clients : Remove(c)
    \/ \E c \in Clients : Get(c)
    \/ \E c \in Clients : End(c)

SpecRace == InitRace /\ [][NextRace]_vars

----------------------------------------------------------------------------
(* Spatial queries: src/app/api/spatial_query.py.                          *)
(* What the store computes for the spatial predicates is modelled on the   *)
(* integer grid: a geometry is the set of grid points it covers, which is  *)
(* exact for the points, axis-parallel lines and axis-parallel rectangles  *)
(* the requests and rows here use.                                         *)

MaxCoord == 5

Grid == (0..MaxCoord) \X (0..MaxCoord)

\* JSON values besides numbers and lists; a JSON object is a record
Str(v) == [t |-> "str", s |-> v]
Null == [t |-> "null"]
IsDict(j) == "t" \notin DOMAIN j

\* SQL NULL in an integer column
NullId == 0 - 1

XY(p) == <<p.xs[1].n, p.xs[2].n>>

Between(a, q, b) == (a <= q /\ q <= b) \/ (b <= q /\ q <= a)

\* Grid points on the segment from a to b
Segment(a, b) ==
    {q \in Grid :
        /\ Between(a[1], q[1], b[1])
        /\ Between(a[2], q[2], b[2])
        /\ (b[1] - a[1]) * (q[2] - a[2]) = (b[2] - a[2]) * (q[1] - a[1])}

\* Grid points of the rectangle whose corners the ring lists
Rectangle(ring) ==
    {q \in Grid :
        /\ \E i, j \in DOMAIN ring.xs : Between(XY(ring.xs[i])[1], q[1], XY(ring.xs[j])[1])
        /\ \E i, j \in DOMAIN ring.xs : Between(XY(ring.xs[i])[2], q[2], XY(ring.xs[j])[2])}

\* The grid points a stored or parsed geometry covers
PointSet(geom) ==
    LET c == geom.coordinates
    IN  CASE Len(c.xs) = 0 -> {}
          [] geom.kind = TPoint -> {XY(c)}
          [] geom.kind = TLineString ->
               UNION {Segment(XY(c.xs[i]), XY(c.xs[i + 1])) : i \in 1..(Len(c.xs) - 1)}
          [] geom.kind = TPolygon -> Rectangle(c.xs[1])
          [] OTHER -> {}

ST_Intersects(a, b) == PointSet(a) \cap PointSet(b) # {}

ST_Within(a, b) == PointSet(a) # {} /\ PointSet(a) \subseteq PointSet(b)

\* Distances are counted in grid steps
ST_DWithin(a, b, d) ==
    \E p \in PointSet(a), q \in PointSet(b) :
        (p[1] - q[1]) * (p[1] - q[1]) + (p[2] - q[2]) * (p[2] - q[2]) <= d * d

\* geometry && envelope: the bounding boxes overlap
BoxOverlaps(a, minx, miny, maxx, maxy) ==
    /\ PointSet(a) # {}
    /\ \E p \in PointSet(a) : p[1] >= minx
    /\ \E p \in PointSet(a) : p[1] <= maxx
    /\ \E p \in PointSet(a) : p[2] >= miny
    /\ \E p \in PointSet(a) : p[2] <= maxy

\* json.dumps: the text of the value
json_dumps(v) == [json |-> v]

\* ST_SetSRID(ST_GeomFromGeoJSON(:geojson), 4326): the geometry, or the
\* store's error for text that is no GeoJSON geometry
ST_GeomFromGeoJSON(text) ==
    LET j == text.json
    IN  IF ~IsDict(j) \/ "type" \notin DOMAIN j \/ "coordinates" \notin DOMAIN j
        THEN StoreError
        ELSE LET c == j.coordinates
                 ty == Lower(j.type)
                 parsed(kind) == Ok([kind |-> kind, srid |-> SRID, coordinates |-> c])
             IN  CASE ty = Lower(TPoint) ->
                        IF IsPosition(c) THEN parsed(TPoint) ELSE StoreError
                   [] ty = Lower(TLineString) ->
                        IF IsPositions(c, 2) THEN parsed(TLineString) ELSE StoreError
                   [] ty = Lower(TPolygon) ->
                        IF /\ IsList(c)
                           /\ Len(c.xs) >= 1
                           /\ \A i \in DOMAIN c.xs :
                                 /\ IsPositions(c.xs[i], 4)
                                 /\ c.xs[i].xs[1] = c.xs[i].xs[Len(c.xs[i].xs)]
                        THEN parsed(TPolygon) ELSE StoreError
                   [] OTHER -> StoreError

\* The keys of a set of rows in ascending order
RECURSIVE Ascending(_)
Ascending(S) ==
    IF S = {} THEN <<>>
    ELSE LET least == CHOOSE k \in S : \A m \in S : k <= m
         IN  <<least>> \o Ascending(S \ {least})

\* The WHERE clause of each of the four statements; the statement of the
\* within query tests ST_Intersects, the buffer is counted in grid steps
Where(kind, a, g, bound) ==
    CASE kind = "SELECT ST_Intersects" -> ST_Intersects(a, g)
      [] kind = "SELECT within" -> ST_Intersects(a, g)
      [] kind = "SELECT ST_DWithin" -> ST_DWithin(a, g, bound.distance)
      [] OTHER -> ST_DWithin(a, g, bound.buffer)

\* SELECT "<t>".id, "<t>".name, "<t>".description, "<t>".geometry FROM <t>
\* WHERE <predicate on geometry>: the unquoted name is folded, the quoted
\* ones are not, and the four columns must exist; a NULL geometry
\* satisfies no predicate.
StoreSelectFeatures(T, identText, kind, g, bound) ==
    LET id == StoreIdentifier(identText)
    IN  IF \/ ~id.ok
           \/ id.value # identText
           \/ id.value \notin DOMAIN T
        THEN StoreError
        ELSE LET table == T[id.value]
                 hit == {k \in DOMAIN table.rows :
                            /\ table.rows[k][ColGeometry] # NoneObj
                            /\ Where(kind, table.rows[k][ColGeometry], g, bound)}
                 keys == Ascending(hit)
             IN  IF {ColId, ColName, ColDescription, ColGeometry}
                        \subseteq ColumnNames(table.cols)
                 THEN [ok |-> TRUE,
                       rows |-> [i \in DOMAIN keys |->
                                    [c \in {ColId, ColName, ColDescription, ColGeometry} |->
                                        table.rows[keys[i]][c]]]]
                 ELSE StoreError

\* SELECT <all columns> FROM public."<t>" WHERE geometry && <envelope>
StoreSelectInBox(T, name, minx, miny, maxx, maxy) ==
    IF \E v \in {minx, miny, maxx, maxy} : v.t \notin {"num", "null"}
    THEN StoreError         \* invalid input syntax for type double precision
    ELSE IF \E v \in {minx, miny, maxx, maxy} : v.t = "null"
    THEN [ok |-> TRUE, rows |-> <<>>]
    ELSE LET table == T[name]
             hit == {k \in DOMAIN table.rows :
                        /\ table.rows[k][ColGeometry] # NoneObj
                        /\ BoxOverlaps(table.rows[k][ColGeometry],
                                       minx.n, miny.n, maxx.n, maxy.n)}
             keys == Ascending(hit)
         IN  [ok |-> TRUE, rows |-> [i \in DOMAIN keys |-> table.rows[keys[i]]]]

\* The properties of a feature: name and description where they are not None
Properties(name, description) ==
    [k \in (IF name # None THEN {"name"} ELSE {})
           \cup (IF description # None THEN {"description"} ELSE {}) |->
        IF k = "name" THEN name ELSE description]

\* serialize_spatial_row: the GeoJSON feature of a result row, or the
\* ValueError for a row without id or geometry
serialize_spatial_row(row) ==
    LET get(field) == IF field \in DOMAIN row THEN row[field] ELSE None
    IN  IF ColId \notin DOMAIN row \/ row[ColId] = NullId THEN Raised
        ELSE IF ColGeometry \notin DOMAIN row \/ row[ColGeometry] = NoneObj THEN Raised
        ELSE Ok([type |-> "Feature",
                 id |-> row[ColId],
                 geometry |-> GeometryOut(row[ColGeometry]),
                 properties |-> Properties(get(ColName), get(ColDescription))])

\* for row in results: try .. features.append(feature) except: continue
RECURSIVE SkipInvalid(_)
SkipInvalid(results) ==
    IF results = <<>> THEN <<>>
    ELSE LET feature == serialize_spatial_row(Head(results))
         IN  (IF feature.ok THEN <<feature.value>> ELSE <<>>) \o SkipInvalid(Tail(results))

\* response_model=List[SpatialOut]: each element needs id, name and geometry
SpatialOutAccepts(feature) ==
    /\ {"id", "name", "geometry"} \subseteq DOMAIN feature
    /\ SpatialOutValid(feature)

\* What a query handler ends with: the response, the statement sent, the
\* rows it got and the value it returned (NoneObj where it raised first)
QueryResult(T, code, content, stmt, got) ==
    [tables |-> T, resp |-> Response(code, content), sent |-> stmt, ret |-> got]

\* The four handlers that share one shape: validate the name, run the
\* statement (a store error answers onError), skip rows that do not
\* serialize, return the list through the response model.
QueryFeatures(T, table_name, geojson_str, bound, kind, onError) ==
    LET name == validate_table_name(table_name)
        g == ST_GeomFromGeoJSON(geojson_str)
        stmt == Statement(kind, table_name, bound)
        results == IF g.ok
                   THEN StoreSelectFeatures(T, table_name, kind, g.value, bound)
                   ELSE StoreError
    IN  IF ~name.ok
        THEN QueryResult(T, name.status, name.detail, NoneObj, NoneObj)
        ELSE IF ~results.ok
        THEN QueryResult(T, onError, "Invalid geometry", stmt, NoneObj)
        ELSE LET features == SkipInvalid(results.rows)
                 got == [rows |-> results.rows, returned |-> features]
             IN  IF \A i \in DOMAIN features : SpatialOutAccepts(features[i])
                 THEN QueryResult(T, 200, features, stmt, got)
                 ELSE QueryResult(T, 500, "response validation", stmt, got)

\* {"geometry": geojson} is taken for geojson
Unwrap(geometry) ==
    IF "geometry" \in DOMAIN geometry /\ IsDict(geometry.geometry)
    THEN geometry.geometry
    ELSE geometry

\* POST /features/{table_name}/query/intersects
query_intersects(T, table_name, geometry) ==
    LET geojson_str == json_dumps(Unwrap(geometry))
    IN  QueryFeatures(T, table_name, geojson_str, [geojson |-> geojson_str],
                      "SELECT ST_Intersects", 422)

\* POST /features/{table_name}/query/within: the statement tests ST_Intersects
query_within(T, table_name, geometry) ==
    LET geojson_str == json_dumps(Unwrap(geometry))
    IN  QueryFeatures(T, table_name, geojson_str, [geojson |-> geojson_str],
                      "SELECT within", 422)

\* POST /features/{table_name}/query/distance: geometry and distance are
\* keys of the body; the statement runs outside any try
query_distance(T, table_name, geometry, distance) ==
    LET geojson_str == json_dumps(geometry)
    IN  IF ~IsDict(geometry) \/ distance.t # "num"
        THEN QueryResult(T, 422, "validation error", NoneObj, NoneObj)
        ELSE QueryFeatures(T, table_name, geojson_str,
                           [geojson |-> geojson_str, distance |-> distance.n],
                           "SELECT ST_DWithin", 500)

\* POST /features/{table_name}/query/buffer
query_buffer(T, table_name, geometry, buffer) ==
    LET geojson_str == json_dumps(geometry)
    IN  IF ~IsDict(geometry) \/ buffer.t # "num"
        THEN QueryResult(T, 422, "validation error", NoneObj, NoneObj)
        ELSE QueryFeatures(T, table_name, geojson_str,
                           [geojson |-> geojson_str, buffer |-> buffer.n],
                           "SELECT ST_Buffer", 422)

\* POST /features/{table_name}/query/bbox
query_bbox(T, table_name, body) ==
    LET safe_table_name == validate_table_name(table_name)
        bbox == IF "bbox" \in DOMAIN body THEN body.bbox ELSE Null
        columns == StoreColumnsOf(T, table_name)
        names == {columns[i].column_name : i \in DOMAIN columns}
        lookup == Statement("SELECT column_name", NoIdent, <<table_name>>)
        stmt == Statement("SELECT &&", table_name, bbox.xs)
    IN  IF ~safe_table_name.ok
        THEN QueryResult(T, safe_table_name.status, safe_table_name.detail, NoneObj, NoneObj)
        ELSE IF ~IsList(bbox) \/ Len(bbox.xs) # 4
        THEN QueryResult(T, 422, "bbox must be a list of four numbers", NoneObj, NoneObj)
        ELSE IF columns = <<>> \/ ColId \notin names \/ ColGeometry \notin names
        THEN QueryResult(T, 500, "Error fetching columns", lookup, NoneObj)
        ELSE LET results == StoreSelectInBox(T, table_name, bbox.xs[1], bbox.xs[2],
                                             bbox.xs[3], bbox.xs[4])
             IN  IF ~results.ok
                 THEN QueryResult(T, 500, "Error querying features", stmt, NoneObj)
                 ELSE IF \E i \in DOMAIN results.rows :
                            ~serialize_spatial_row(results.rows[i]).ok
                 THEN QueryResult(T, 500, "Error querying features", stmt,
                                  [rows |-> results.rows, returned |-> NoneObj])
                 ELSE LET features == [i \in DOMAIN results.rows |->
                                          serialize_spatial_row(results.rows[i]).value]
                      IN  QueryResult(T, 200,
                                      [type |-> "FeatureCollection", features |-> features],
                                      stmt,
                                      [rows |-> results.rows, returned |-> features])

\* The stores the queries run on.  GatewayStore is what the gateway's own
\* requests build: a LINESTRING table t with three lines and a POINT table
\* u without extra fields.
GLineString == <<"L", "I", "N", "E", "S", "T", "R", "I", "N", "G">>

QueryArea ==
    Geometry(TPolygon, List(<<List(<<Pos(0, 0), Pos(3, 0), Pos(3, 3), Pos(0, 3), Pos(0, 0)>>)>>))
LineInside == Geometry(TLineString, List(<<Pos(1, 1), Pos(2, 1)>>))
LineCrossing == Geometry(TLineString, List(<<Pos(2, 2), Pos(4, 2)>>))
LineOutside == Geometry(TLineString, List(<<Pos(5, 4), Pos(5, 5)>>))

GatewayStore ==
    LET t0 == create_spatial_table(
                  EmptyTables, TableRequest(Nt, GLineString, SRID, NameFields)).tables
        t1 == create_feature(t0, Nt, Feature("A", None, LineInside)).tables
        t2 == create_feature(t1, Nt, Feature("A", "e", LineCrossing)).tables
        t3 == create_feature(t2, Nt, Feature("A", None, LineOutside)).tables
    IN  create_spatial_table(t3, TableRequest(Nu, GPoint, SRID, NoFields)).tables

\* A table v that another writer of the database made: no primary key and
\* every column nullable, a column label among them.  Its rows: a complete
\* one, one with NULL id, one with NULL geometry.
ForeignTable ==
    LET col(n, ty) == [name |-> n, type |-> ty, notnull |-> FALSE]
        row(i, g) == [c \in {ColId, ColName, ColDescription, ColLabel, ColGeometry} |->
                         CASE c = ColId -> i
                           [] c = ColName -> "A"
                           [] c = ColDescription -> None
                           [] c = ColLabel -> IF i = 1 THEN "x" ELSE None
                           [] OTHER -> g]
        point(x, y) == from_shape([kind |-> TPoint, coordinates |-> Pos(x, y)], SRID)
    IN  [cols |-> <<col(ColId, "INTEGER"), col(ColName, "TEXT"),
                    col(ColDescription, "TEXT"), col(ColLabel, "TEXT"),
                    col(ColGeometry, "geometry")>>,
         rows |-> [k \in 1..3 |->
                      CASE k = 1 -> row(1, point(1, 1))
                        [] k = 2 -> row(NullId, point(2, 2))
                        [] OTHER -> row(3, NoneObj)],
         nextId |-> 4]

ForeignStore ==
    [n \in DOMAIN GatewayStore \cup {Nv} |->
        IF n = Nv THEN ForeignTable ELSE GatewayStore[n]]

QueryStores == {GatewayStore, ForeignStore}

\* Request bodies: a geometry bare and wrapped, and one the store cannot parse
Circle == Geometry(<<"C", "i", "r", "c", "l", "e">>, Pos(1, 1))
QueryGeometries ==
    {QueryArea, [geometry |-> QueryArea],
     Geometry(TPoint, Pos(1, 1)), [geometry |-> Geometry(TPoint, Pos(1, 1))],
     Circle}

QueryTables == {Nt, NT, Nu, Nv, NtHyphen}

GeometryRequests(o) ==
    {[op |-> o, table_name |-> n, geometry |-> g] : n \in QueryTables, g \in QueryGeometries}

ReachRequests(o) ==
    {[op |-> o, table_name |-> n, geometry |-> g, reach |-> Num(1)] :
        n \in {Nt, Nv}, g \in QueryGeometries}
    \cup {[op |-> o, table_name |-> Nt, geometry |-> QueryArea, reach |-> Null]}

BBoxBodies ==
    {[bbox |-> List(<<Num(0), Num(0), Num(3), Num(3)>>)],
     [bbox |-> List(<<Num(0), Num(0), Num(3)>>)],
     [bbox |-> List(<<Num(0), Num(0), Str("a"), Num(3)>>)],
     [bbox |-> List(<<Num(0), Num(0), Null, Num(3)>>)],
     [bbox |-> List(<<Num(0), Num(0), List(<<Num(3)>>), Num(3)>>)],
     [bbox |-> List(<<>>)],
     [bbox |-> Num(3)],
     [box |-> List(<<Num(0), Num(0), Num(3), Num(3)>>)]}

BBoxRequests ==
    {[op |-> "query_bbox", table_name |-> n, body |-> b] : n \in QueryTables, b \in BBoxBodies}

\* A query is served from arrival to response in one step
HandleQuery(r, result) ==
    /\ req = NoneObj
    /\ before' = tables
    /\ req' = r
    /\ tables' = result.tables
    /\ resp' = result.resp
    /\ sent' = result.sent
    /\ ret' = result.ret
    /\ UNCHANGED <<arg, pc, local, held, tmpfiles>>

QueryIntersects ==
    \E r \in GeometryRequests("query_intersects") :
        HandleQuery(r, query_intersects(tables, r.table_name, r.geometry))

QueryWithin ==
    \E r \in GeometryRequests("query_within") :
        HandleQuery(r, query_within(tables, r.table_name, r.geometry))

QueryBBox ==
    \E r \in BBoxRequests : HandleQuery(r, query_bbox(tables, r.table_name, r.body))

QueryDistance ==
    \E r \in ReachRequests("query_distance") :
        HandleQuery(r, query_distance(tables, r.table_name, r.geometry, r.reach))

QueryBuffer ==
    \E r \in ReachRequests("query_buffer") :
        HandleQuery(r, query_buffer(tables, r.table_name, r.geometry, r.reach))

CompleteQuery ==
    /\ req # NoneObj
    /\ req' = NoneObj
    /\ resp' = NoneObj
    /\ sent' = NoneObj
    /\ ret' = NoneObj
    /\ before' = tables
    /\ UNCHANGED <<tables, arg, pc, local, held, tmpfiles>>

InitQuery ==
    /\ tables \in QueryStores
    /\ before = tables
    /\ req = NoneObj
    /\ resp = NoneObj
    /\ sent = NoneObj
    /\ arg = <<>>
    /\ ret = NoneObj
    /\ pc = NoClients
    /\ local = NoClients
    /\ held = 0
    /\ tmpfiles = {}

NextQuery ==
    \/ QueryIntersects
    \/ QueryWithin
    \/ QueryBBox
    \/ QueryDistance
    \/ QueryBuffer
    \/ CompleteQuery

SpecQuery == InitQuery /\ [][NextQuery]_vars

----------------------------------------------------------------------------
(* The geopackage import.  An upload is a file name and a content; the     *)
(* content is unreadable bytes or a geopackage whose first layer has       *)
(* property fields, a coordinate system and features.                      *)

MaxTmp == 2

\* str.rfind: the last index of c in s, 0 where there is none
LastIndex(s, c) ==
    LET at == {i \in DOMAIN s : s[i] = c}
    IN  IF at = {} THEN 0 ELSE CHOOSE i \in at : \A j \in at : j <= i

\* str.endswith
EndsWith(s, suffix) ==
    /\ Len(s) >= Len(suffix)
    /\ SubSeq(s, Len(s) - Len(suffix) + 1, Len(s)) = suffix

\* os.path.basename
basename(path) == SubSeq(path, LastIndex(path, "/") + 1, Len(path))

\* os.path.splitext(path)[0]: the last dot starts the extension unless only
\* dots come before it in the file name
splitext(path) ==
    LET sepIndex == LastIndex(path, "/")
        dotIndex == LastIndex(path, ".")
    IN  IF dotIndex > sepIndex /\ \E i \in (sepIndex + 1)..(dotIndex - 1) : path[i] # "."
        THEN SubSeq(path, 1, dotIndex - 1)
        ELSE path

DotGpkg == <<".", "g", "p", "k", "g">>

\* tempfile.NamedTemporaryFile(delete=False): a path no file has yet
NamedTemporaryFile(F) == CHOOSE n \in 1..(Cardinality(F) + 1) : n \notin F

\* The geometry type to_postgis declares: the layer's one type, or GEOMETRY
LayerGeometryType(features) ==
    LET kinds == {features[i][ColGeometry].kind : i \in DOMAIN features}
    IN  IF Cardinality(kinds) = 1
        THEN Upper(CHOOSE k \in kinds : TRUE)
        ELSE <<"G", "E", "O", "M", "E", "T", "R", "Y">>

\* The table to_postgis makes from the frame with index=True,
\* index_label='id': the index 0..n-1 is written as a plain column "id",
\* then the fields, then the geometry column
FrameTable(gdf) ==
    LET n == Len(gdf.features)
        columns ==
            <<[name |-> ColId, type |-> "BIGINT", notnull |-> FALSE]>>
            \o [i \in DOMAIN gdf.fields |->
                   [name |-> gdf.fields[i], type |-> "TEXT", notnull |-> FALSE]]
            \o <<[name |-> ColGeometry, type |-> "geometry", notnull |-> FALSE,
                  geometry_type |-> LayerGeometryType(gdf.features), srid |-> gdf.crs]>>
        row(k) == [c \in Range(gdf.fields) \cup {ColId, ColGeometry} |->
                      CASE c = ColId -> k - 1
                        [] c = ColGeometry -> from_shape(gdf.features[k][ColGeometry], gdf.crs)
                        [] OTHER -> gdf.features[k][c]]
    IN  [cols |-> columns, rows |-> [k \in 1..n |-> row(k)], nextId |-> n + 1]

\* Mutant: to_postgis with if_exists='append'
to_postgis_Append(T, table_name, gdf) ==
    IF ColId \in Range(gdf.fields)
    THEN [ok |-> FALSE, error |-> "ValueError", tables |-> T]
    ELSE IF table_name \in DOMAIN T
    THEN [ok |-> TRUE,
          tables |-> [T EXCEPT ![table_name].rows = @ \o FrameTable(gdf).rows]]
    ELSE [ok |-> TRUE,
          tables |-> [name \in DOMAIN T \cup {table_name} |->
                         IF name = table_name THEN FrameTable(gdf) ELSE T[name]]]

\* gdf.to_postgis(table_name, bind, if_exists='replace', index=True,
\* index_label='id'): the table of that name is dropped and made anew from
\* the frame.  A frame with a column "id" of its own is refused and
\* nothing is written.
to_postgis(T, table_name, gdf) ==
    IF ColId \in Range(gdf.fields)
    THEN [ok |-> FALSE, error |-> "ValueError", tables |-> T]
    ELSE [ok |-> TRUE,
          tables |-> [name \in DOMAIN T \cup {table_name} |->
                         IF name = table_name THEN FrameTable(gdf) ELSE T[name]]]

\* CRUDSpatial.import_geopackage_to_table: the outcome (raised is the status
\* of the HTTPException it raises, 0 where it returns), the store and the
\* files left.  The name check comes before the try whose finally removes
\* the file.
import_geopackage_to_table(T, F, gpkg_path, table_name, content, storeUp) ==
    LET removed == F \ {gpkg_path}
        write == to_postgis(T, table_name, content.layer)
    IN  IF ~validate_table_name(table_name).ok
        THEN [raised |-> 400, tables |-> T, files |-> F]
        ELSE IF ~content.readable
        THEN [raised |-> 400, tables |-> T, files |-> removed]   \* DriverError
        ELSE IF content.layer.features = <<>>
        THEN [raised |-> 400, tables |-> T, files |-> removed]   \* ValueError
        ELSE IF ~content.layer.spatial
        THEN [raised |-> 400, tables |-> T, files |-> removed]   \* ValueError
        ELSE IF ~storeUp
        THEN [raised |-> 500, tables |-> T, files |-> removed]
        ELSE IF ~write.ok
        THEN [raised |-> 400, tables |-> T, files |-> removed]   \* ValueError
        ELSE [raised |-> 0, tables |-> write.tables, files |-> removed]

\* POST /import/geopackage/: result is the store, the files on disk, the
\* response and the path of the temporary file (NoneObj where none is made)
import_geopackage(T, F, file, storeUp) ==
    LET table_name == splitext(basename(file.filename))
        tmp_path == NamedTemporaryFile(F)
        done == import_geopackage_to_table(
                    T, F \cup {tmp_path}, tmp_path, table_name, file.content, storeUp)
    IN  IF ~EndsWith(Lower(file.filename), DotGpkg)
        THEN [tables |-> T, files |-> F, ret |-> NoneObj,
              resp |-> Response(400, "Only .gpkg files are supported.")]
        ELSE IF done.raised # 0
        THEN [tables |-> done.tables, files |-> done.files,
              ret |-> [tmp_path |-> tmp_path, table_name |-> table_name,
                       raised |-> done.raised],
              resp |-> Response(500, "Import failed")]
        ELSE [tables |-> done.tables, files |-> done.files,
              ret |-> [tmp_path |-> tmp_path, table_name |-> table_name, raised |-> 0],
              resp |-> Response(201, "Imported")]

\* The uploads
Unreadable == [readable |-> FALSE]

Layer(fs, srid, rows) ==
    [readable |-> TRUE,
     layer |-> [fields |-> fs, crs |-> srid, spatial |-> TRUE, features |-> rows]]

LayerRow(n, g) == [c \in {ColName, ColGeometry} |-> IF c = ColName THEN n ELSE g]

PointAt(x, y) == [kind |-> TPoint, coordinates |-> Pos(x, y)]

Contents ==
    {Unreadable,
     Layer(<<ColName>>, SRID, <<>>),
     Layer(<<ColName>>, SRID, <<LayerRow("A", PointAt(1, 1)), LayerRow("B", PointAt(2, 2))>>),
     Layer(<<>>, SRID + 1,
           <<[c \in {ColGeometry} |-> PointAt(1, 1)],
             [c \in {ColGeometry} |-> [kind |-> TLineString,
                                       coordinates |-> List(<<Pos(1, 1), Pos(2, 1)>>)]]>>),
     Layer(<<ColId>>, SRID,
           <<[c \in {ColId, ColGeometry} |-> IF c = ColId THEN "A" ELSE PointAt(1, 1)]>>),
     [readable |-> TRUE,
      layer |-> [fields |-> <<ColName>>, crs |-> SRID, spatial |-> FALSE,
                 features |-> <<[c \in {ColName} |-> "A"]>>]]}

FileNames ==
    {Nt \o DotGpkg,
     NT \o Upper(DotGpkg),
     <<"d", "/">> \o Nu \o DotGpkg,
     NtHyphen \o DotGpkg,
     DotGpkg,
     Nt \o <<".", "t", "x", "t">>}

Uploads == {[filename |-> f, content |-> c] : f \in FileNames, c \in Contents}

ImportGeopackage ==
    \E file \in Uploads, storeUp \in BOOLEAN :
        LET result == import_geopackage(tables, tmpfiles, file, storeUp)
        IN  /\ req = NoneObj
            /\ Cardinality(tmpfiles) < MaxTmp
            /\ before' = tables
            /\ req' = [op |-> "import_geopackage", file |-> file, storeUp |-> storeUp,
                       files |-> tmpfiles]
            /\ tables' = result.tables
            /\ tmpfiles' = result.files
            /\ resp' = result.resp
            /\ ret' = result.ret
            /\ sent' = NoneObj
            /\ UNCHANGED <<arg, pc, local, held>>

CompleteImport ==
    /\ req # NoneObj
    /\ req' = NoneObj
    /\ resp' = NoneObj
    /\ ret' = NoneObj
    /\ before' = tables
    /\ UNCHANGED <<tables, sent, arg, pc, local, held, tmpfiles>>

InitImport ==
    /\ tables \in {EmptyTables, RaceStore}
    /\ before = tables
    /\ req = NoneObj
    /\ resp = NoneObj
    /\ sent = NoneObj
    /\ arg = <<>>
    /\ ret = NoneObj
    /\ pc = NoClients
    /\ local = NoClients
    /\ held = 0
    /\ tmpfiles = {}

NextImport ==
    \/ ImportGeopackage
    \/ CompleteImport

SpecImport == InitImport /\ [][NextImport]_vars

----------------------------------------------------------------------------
(* Features of all six kinds: one table for each geometry type, named by   *)
(* the type in lower case, and valid geometries written to them and read   *)
(* back.                                                                   *)

TypeOrder == <<TPoint, TLineString, TPolygon, TMultiPoint, TMultiLineString, TMultiPolygon>>

RECURSIVE TypedTables(_)
TypedTables(k) ==
    IF k = 0 THEN EmptyTables
    ELSE create_spatial_table(
             TypedTables(k - 1),
             TableRequest(Lower(TypeOrder[k]), Upper(TypeOrder[k]), SRID, NameFields)).tables

InnerRing == List(<<PB, PC, PD, PB>>)

ValidGeometries ==
    GoodGeometries
    \cup {Geometry(TLineString, List(<<PA, PB, PC>>)),
          Geometry(TPolygon, List(<<ClosedRing, InnerRing>>)),
          Geometry(TMultiPoint, List(<<PA, PB>>)),
          Geometry(TMultiPolygon, List(<<List(<<ClosedRing>>), List(<<InnerRing>>)>>))}

TypedRequests ==
    {[op |-> "create_feature", table_name |-> Lower(g.type),
      feature |-> Feature("A", None, g)] : g \in ValidGeometries}
    \cup {[op |-> "create_feature", table_name |-> Lower(TPolygon),
           feature |-> Feature("A", None, Geometry(TPoint, PA))]}

RowCount(T) == Cardinality({p \in (DOMAIN T) \X (1..MaxId) : p[2] \in DOMAIN T[p[1]].rows})

CreateTyped ==
    \E r \in TypedRequests :
        /\ RowCount(tables) < MaxId
        /\ Handle(r, create_feature(tables, r.table_name, r.feature))

ReadTyped ==
    \E n \in DOMAIN tables, i \in 1..MaxId :
        LET r == [op |-> "read_feature", table_name |-> n, feature_id |-> i]
        IN  Handle(r, read_feature(tables, r.table_name, r.feature_id))

InitTyped ==
    /\ tables = TypedTables(Len(TypeOrder))
    /\ before = tables
    /\ req = NoneObj
    /\ resp = NoneObj
    /\ sent = NoneObj
    /\ arg = <<>>
    /\ ret = NoneObj
    /\ pc = NoClients
    /\ local = NoClients
    /\ held = 0
    /\ tmpfiles = {}

NextTyped ==
    \/ CreateTyped
    \/ ReadTyped
    \/ Complete

SpecTyped == InitTyped /\ [][NextTyped]_vars

----------------------------------------------------------------------------
(* tuples_to_lists on the values mapping() can hand it: numbers and        *)
(* strings, tuples and lists of values, and dicts with string keys (a dict *)
(* is a record here, as the GeoJSON objects above are).                    *)

MaxWidth == 2

Tuple(items) == [t |-> "tuple", xs |-> items]

IsTuple(obj) == "t" \in DOMAIN obj /\ obj.t = "tuple"

IsListValue(obj) == "t" \in DOMAIN obj /\ obj.t = "list"

\* Mutant: only the outermost tuple becomes a list
tuples_to_lists_Shallow(obj) ==
    IF IsTuple(obj) THEN List(obj.xs) ELSE obj

RECURSIVE tuples_to_lists(_)
tuples_to_lists(obj) ==
    IF IsTuple(obj) THEN List([i \in DOMAIN obj.xs |-> tuples_to_lists(obj.xs[i])])
    ELSE IF IsListValue(obj) THEN List([i \in DOMAIN obj.xs |-> tuples_to_lists(obj.xs[i])])
    ELSE IF IsDict(obj) THEN [k \in DOMAIN obj |-> tuples_to_lists(obj[k])]
    ELSE obj

Leaves == {Num(1), Str("a")}

UpToWidth(S) == UNION {[1..n -> S] : n \in 0..MaxWidth}

Containers(S) ==
    {Tuple(xs) : xs \in UpToWidth(S)}
    \cup {List(xs) : xs \in UpToWidth(S)}
    \cup {[coordinates |-> v] : v \in S}

\* What a container holds: a leaf, a tuple of leaves or a dict of a leaf
Members ==
    Leaves
    \cup {Tuple(xs) : xs \in UpToWidth(Leaves)}
    \cup {[coordinates |-> v] : v \in Leaves}

PythonValues == Leaves \cup Containers(Members)

InitTuples ==
    /\ tables = EmptyTables
    /\ before = EmptyTables
    /\ req = NoneObj
    /\ resp = NoneObj
    /\ sent = NoneObj
    /\ arg \in PythonValues
    /\ ret = NoneObj
    /\ pc = NoClients
    /\ local = NoClients
    /\ held = 0
    /\ tmpfiles = {}

CallTuplesToLists ==
    /\ ret = NoneObj
    /\ ret' = tuples_to_lists(arg)
    /\ UNCHANGED <<tables, before, req, resp, sent, arg, pc, local, held, tmpfiles>>

NextTuples == CallTuplesToLists

SpecTuples == InitTuples /\ [][NextTuples]_vars

----------------------------------------------------------------------------
(* The claims *)

\* The identifier pattern ^[A-Za-z_][A-Za-z0-9_]*$ as the specification reads it
IsIdentifier(s) ==
    /\ Len(s) >= 1
    /\ s[1] \in Letters \cup {"_"}
    /\ \A i \in 2..Len(s) : s[i] \in Letters \cup Digits \cup {"_"}

Served(o) == req # NoneObj /\ req.op = o

\* C1: every statement that carries a caller-supplied table name in its
\* text carries one that passed the identifier validator.
C1_OnlyValidatedNamesInStatements ==
    (sent # NoneObj /\ sent.ident # NoIdent) => validate_table_name(sent.ident).ok

\* C2: validate_table_name(s) returns s unchanged exactly when s matches
\* ^[A-Za-z_][A-Za-z0-9_]*$ in full, and fails with 400 'Invalid table name'
\* for every other string, a string ending in a newline included.
C2_ValidatorAcceptsExactlyIdentifiers ==
    ret # NoneObj =>
        /\ ret.ok <=> IsIdentifier(arg)
        /\ ret.ok => ret.value = arg
        /\ ~ret.ok => ret.status = 400 /\ ret.detail = "Invalid table name"

TableRequestIllFormed(r) ==
    \/ ~IsIdentifier(r.table_name)
    \/ \E i \in DOMAIN r.fields : ~IsIdentifier(r.fields[i].name)
    \/ r.geometry_type \notin GeometryTypeLiteral

\* C3: a table-creation request whose table name or a field name is not an
\* identifier, or whose geometry type is not one of the six, gets 422, no
\* statement reaches the store and the tables are unchanged.
C3_IllFormedTableRequestRejected ==
    (Served("create_spatial_table") /\ TableRequestIllFormed(req)) =>
        /\ resp.status = 422
        /\ sent = NoneObj
        /\ tables = before

C3_Witness ==
    /\ Served("create_spatial_table")
    /\ ~IsIdentifier(req.table_name)
    /\ req.table_name[Len(req.table_name)] = "\n"
    /\ DOMAIN before # {}
    /\ resp.status = 422

DescribedNames(d) == {d.body.columns[i].column_name : i \in DOMAIN d.body.columns}

\* C5: once POST /spatial-tables/ with table_name n answered 201, GET
\* /spatial-tables/n answers 200 with table = n and columns that include
\* geometry and every requested field; once DELETE /spatial-tables/n
\* answered 200, GET /spatial-tables/n answers 404.
C5_DescribeAfterCreateAndDelete ==
    /\ (Served("create_spatial_table") /\ resp.status = 201) =>
          LET d == describe_spatial_table(tables, req.table_name).resp
          IN  /\ d.status = 200
              /\ d.body.table = req.table_name
              /\ ColGeometry \in DescribedNames(d)
              /\ \A i \in DOMAIN req.fields : req.fields[i].name \in DescribedNames(d)
    /\ (Served("delete_spatial_table") /\ resp.status = 200) =>
          describe_spatial_table(tables, req.table_name).resp.status = 404

\* The rings of a Polygon or MultiPolygon as sent
RingsOf(g) ==
    IF g.type = TPolygon
    THEN {g.coordinates.xs[i] : i \in DOMAIN g.coordinates.xs}
    ELSE UNION {{g.coordinates.xs[i].xs[j] : j \in DOMAIN g.coordinates.xs[i].xs} :
                   i \in DOMAIN g.coordinates.xs}

\* Every ring is a list of positions, and one of them is shorter than 4
\* positions or has different first and last positions.
HasBadRing(g) ==
    /\ g.type \in {TPolygon, TMultiPolygon}
    /\ \A ring \in RingsOf(g) : ring.t = "list"
    /\ \E ring \in RingsOf(g) :
          \/ Len(ring.xs) < 4
          \/ ring.xs[1] # ring.xs[Len(ring.xs)]

WritesFeature == Served("create_feature") \/ Served("update_feature")

\* C6: a feature create or update whose Polygon or MultiPolygon has a ring
\* of fewer than 4 positions or a ring that is not closed gets 422, and the
\* tables hold exactly the rows they held.
C6_BadRingRejected ==
    (WritesFeature /\ req.feature.geometry # NoneObj /\ HasBadRing(req.feature.geometry))
        => (resp.status = 422 /\ tables = before)

C6_Witness ==
    /\ Served("update_feature")
    /\ req.feature.geometry # NoneObj
    /\ HasBadRing(req.feature.geometry)
    /\ req.table_name \in DOMAIN before
    /\ req.feature_id \in DOMAIN before[req.table_name].rows
    /\ GeometryColumn(before[req.table_name]).geometry_type = GPolygon
    /\ resp.status = 422

\* The rule of each of the six types, as the data model states it
SatisfiesRule(g) ==
    LET c == g.coordinates
    IN  CASE g.type = TPoint ->
               c.t = "list" /\ Len(c.xs) = 2 /\ \A i \in DOMAIN c.xs : c.xs[i].t = "num"
          [] g.type = TLineString -> c.t = "list" /\ Len(c.xs) >= 2
          [] g.type = TMultiPoint -> c.t = "list" /\ Len(c.xs) >= 1
          [] g.type = TMultiLineString ->
               /\ c.t = "list"
               /\ \A i \in DOMAIN c.xs : c.xs[i].t = "list" /\ Len(c.xs[i].xs) >= 2
          [] g.type \in {TPolygon, TMultiPolygon} ->
               /\ c.t = "list"
               /\ Len(c.xs) >= 1
               /\ \A ring \in RingsOf(g) :
                     /\ ring.t = "list"
                     /\ Len(ring.xs) >= 4
                     /\ ring.xs[1] = ring.xs[Len(ring.xs)]
          [] OTHER -> FALSE

\* C7: feature create stores a row only for a geometry whose type is one of
\* the six GeoJSON names and whose coordinates satisfy the type's rule; any
\* other geometry sent to an existing table gets 422 and no row.
C7_OnlyRuleAbidingGeometriesStored ==
    (Served("create_feature") /\ req.feature.geometry # NoneObj) =>
        LET g == req.feature.geometry
            good == g.type \in GeoJSONTypes /\ SatisfiesRule(g)
        IN  /\ tables # before => good
            /\ (~good /\ req.table_name \in DOMAIN before) =>
                  (resp.status = 422 /\ tables = before)

\* C8: on a table created with geometry type POINT and no extra fields,
\* POST /features/{table}/ with a name and a Point answers 201 with a
\* store-assigned id and the submitted geometry.
C8_CreateOnBareTable ==
    ( /\ Served("create_feature")
      /\ req.table_name \in DOMAIN before
      /\ ColumnNames(before[req.table_name].cols) = {ColId, ColGeometry}
      /\ GeometryColumn(before[req.table_name]).geometry_type = GPoint
      /\ GeometryColumn(before[req.table_name]).srid = SRID
      /\ req.feature.name # None
      /\ req.feature.geometry \in GoodGeometries
      /\ req.feature.geometry.type = TPoint )
    => /\ resp.status = 201
       /\ resp.body.id = before[req.table_name].nextId
       /\ resp.body.geometry = req.feature.geometry

\* The columns an update request provides a value for
Provided(feature) ==
    (IF feature.name # None THEN {ColName} ELSE {})
    \cup (IF feature.description # None THEN {ColDescription} ELSE {})
    \cup (IF feature.geometry # NoneObj THEN {ColGeometry} ELSE {})

\* C9: a successful update changes, in the row of the given id, only the
\* columns among name, description and geometry that the request provides;
\* the id, the other columns, the other rows and the other tables are as
\* they were, and the returned feature shows the new values.
C9_UpdateFrame ==
    (Served("update_feature") /\ resp.status = 200) =>
        LET n == req.table_name
            id == req.feature_id
            old == before[n].rows[id]
            new == tables[n].rows[id]
        IN  /\ DOMAIN tables = DOMAIN before
            /\ \A m \in DOMAIN before \ {n} : tables[m] = before[m]
            /\ tables[n].cols = before[n].cols
            /\ DOMAIN tables[n].rows = DOMAIN before[n].rows
            /\ \A i \in DOMAIN before[n].rows \ {id} : tables[n].rows[i] = before[n].rows[i]
            /\ DOMAIN new = DOMAIN old
            /\ new[ColId] = id /\ old[ColId] = id
            /\ \A c \in DOMAIN old \ Provided(req.feature) : new[c] = old[c]
            /\ resp.body.id = id
            /\ req.feature.name # None =>
                  (resp.body.name = req.feature.name /\ new[ColName] = req.feature.name)
            /\ req.feature.description # None =>
                  /\ resp.body.description = req.feature.description
                  /\ new[ColDescription] = req.feature.description
            /\ resp.body.geometry = GeometryOut(new[ColGeometry])
            /\ (req.feature.geometry # NoneObj /\ req.feature.geometry.type \in GeoJSONTypes)
                  => resp.body.geometry = req.feature.geometry

C9_Witness ==
    /\ Served("update_feature")
    /\ resp.status = 200
    /\ Provided(req.feature) = {ColName}
    /\ Cardinality(DOMAIN before[req.table_name].rows) = MaxId
    /\ before[req.table_name].rows[req.feature_id][ColName] # req.feature.name
    /\ before[req.table_name].rows[req.feature_id][ColDescription] # None

\* C10: PUT for an existing id with no recognised field (empty body, only
\* unknown keys, every field null) gets 400 'No fields to update.', no
\* UPDATE statement is sent and the tables are unchanged.
C10_EmptyUpdateRejected ==
    ( /\ Served("update_feature")
      /\ req.table_name \in DOMAIN before
      /\ req.feature_id \in DOMAIN before[req.table_name].rows
      /\ Provided(req.feature) = {} )
    => /\ resp.status = 400
       /\ resp.body = "No fields to update."
       /\ sent.kind # "UPDATE"
       /\ tables = before

C10_Witness ==
    /\ Served("update_feature")
    /\ req.table_name \in DOMAIN before
    /\ req.feature_id \in DOMAIN before[req.table_name].rows
    /\ "colour" \in DOMAIN req.feature
    /\ resp.status = 400

\* Client c's request has its response
Answered(c, o) == pc[c] = "responded" /\ local[c].req.op = o

\* The row of client c's request in the store its last statement ran on
RowSeen(c) ==
    LET rows == local[c].seen[local[c].req.table_name].rows
    IN  IF local[c].req.feature_id \in DOMAIN rows
        THEN rows[local[c].req.feature_id]
        ELSE NoneObj

\* C11: an update whose id has no row when its statement executes reports
\* 404, in every interleaving with other requests.
C11_UpdateOfMissingRowNotFound ==
    \A c \in DOMAIN pc :
        (Answered(c, "update_feature") /\ local[c].sent # NoneObj /\ RowSeen(c) = NoneObj)
            => local[c].resp.status = 404

\* C12: remove of an existing row answers 200 with the row's content and
\* the row is gone for good; remove or get of an id without a row answers
\* 404; of two removes of one id of which one found the row, exactly one
\* answers 200 and the other 404.
C12_RemoveReturnsRowOnce ==
    /\ \A c \in DOMAIN pc :
          Answered(c, "delete_feature") =>
             IF RowSeen(c) # NoneObj
             THEN /\ local[c].resp.status = 200
                  /\ local[c].resp.body = serialize_spatial_feature(RowSeen(c))
                  /\ local[c].req.feature_id \notin DOMAIN tables[local[c].req.table_name].rows
             ELSE local[c].resp.status = 404
    /\ \A c \in DOMAIN pc :
          (Answered(c, "read_feature") /\ local[c].sent # NoneObj /\ RowSeen(c) = NoneObj)
             => local[c].resp.status = 404
    /\ \A c, d \in DOMAIN pc :
          ( /\ c # d
            /\ Answered(c, "delete_feature")
            /\ Answered(d, "delete_feature")
            /\ local[c].req.feature_id = local[d].req.feature_id
            /\ (RowSeen(c) # NoneObj \/ RowSeen(d) # NoneObj) )
          => {local[c].resp.status, local[d].resp.status} = {200, 404}

WritesRows ==
    Served("create_feature") \/ Served("update_feature") \/ Served("delete_feature")

\* C13: when a feature create, update or remove answers with an error, the
\* rows of every table are what they were before the request.
C13_ErrorLeavesRowsUnchanged ==
    (WritesRows /\ resp.status \notin {200, 201}) => tables = before

\* C14: every session a request opened is closed when the request is over,
\* whatever its outcome: the sessions held are those of the requests in
\* progress, and none when no request is in progress.
C14_SessionsReleased ==
    /\ held = Cardinality({c \in DOMAIN pc : pc[c] # "idle"})
    /\ (\A c \in DOMAIN pc : pc[c] = "idle") => held = 0

C14_Witness ==
    /\ DOMAIN pc = Clients
    /\ \A c \in Clients : pc[c] = "idle"
    /\ \E c \in Clients : local[c].resp # NoneObj /\ local[c].resp.status = 500
    /\ \E c \in Clients : local[c].resp # NoneObj /\ local[c].resp.status \in {400, 404, 422}
    /\ held = 0

\* What the gateway answers to query request r on store T
Answer(T, r) ==
    CASE r.op = "query_intersects" -> query_intersects(T, r.table_name, r.geometry)
      [] r.op = "query_within" -> query_within(T, r.table_name, r.geometry)
      [] r.op = "query_distance" -> query_distance(T, r.table_name, r.geometry, r.reach)
      [] r.op = "query_buffer" -> query_buffer(T, r.table_name, r.geometry, r.reach)
      [] OTHER -> query_bbox(T, r.table_name, r.body)

GeometryQueries == {"query_intersects", "query_within", "query_distance", "query_buffer"}

\* C15: in each of the five queries, when a selected row does not
\* normalize, the response is still 200 and holds the normalized form of
\* every other selected row.
C15_MalformedRowSkipped ==
    (/\ req # NoneObj
     /\ ret # NoneObj
     /\ \E i \in DOMAIN ret.rows : ~serialize_spatial_row(ret.rows[i]).ok)
    => /\ resp.status = 200
       /\ (IF req.op = "query_bbox" THEN resp.body.features ELSE resp.body)
              = SkipInvalid(ret.rows)

FourNumbers(body) ==
    /\ "bbox" \in DOMAIN body
    /\ IsList(body.bbox)
    /\ Len(body.bbox.xs) = 4
    /\ \A i \in DOMAIN body.bbox.xs : IsNum(body.bbox.xs[i])

\* C16: a bbox query on an existing table whose bbox is not a list of
\* exactly four numbers is answered 422 and sends no spatial statement.
C16_BBoxRejectedUnlessFourNumbers ==
    (/\ Served("query_bbox")
     /\ req.table_name \in DOMAIN tables
     /\ ~FourNumbers(req.body))
    => /\ resp.status = 422
       /\ (sent = NoneObj \/ sent.kind # "SELECT &&")

\* C17: a geometry query that supplies {"geometry": g} gets the response
\* of the same query supplying g, and binds the same statement parameters.
C17_WrapperSameAsBare ==
    (/\ req # NoneObj
     /\ req.op \in GeometryQueries
     /\ "geometry" \in DOMAIN req.geometry)
    => LET bare == Answer(tables, [req EXCEPT !.geometry = req.geometry.geometry])
       IN  /\ resp = bare.resp
           /\ sent = bare.sent

\* C18: every row the within query selects lies within the supplied
\* geometry.
C18_WithinSelectsContainedRows ==
    (Served("query_within") /\ ret # NoneObj)
    => \A i \in DOMAIN ret.rows :
           \/ ret.rows[i][ColGeometry] = NoneObj
           \/ ST_Within(ret.rows[i][ColGeometry],
                        ST_GeomFromGeoJSON(json_dumps(Unwrap(req.geometry))).value)

\* The geometry a query supplies, as the endpoint is documented to take it
Supplied(r) == IF r.op = "query_bbox" THEN r.body ELSE Unwrap(r.geometry)

Malformed(r) ==
    IF r.op = "query_bbox"
    THEN ~FourNumbers(r.body)
    ELSE ~ST_GeomFromGeoJSON(json_dumps(Supplied(r))).ok

\* C19: each of the five queries, on an existing table, answers 422 to a
\* geometry the store cannot parse or a bbox that is not four numbers.
C19_MalformedGeometryIs422 ==
    (/\ req # NoneObj
     /\ req.table_name \in DOMAIN tables
     /\ Malformed(req))
    => resp.status = 422

\* C20: when a geometry query selects a row with a name, the response is
\* 200 and lists that row with its stored geometry.
C20_NamedRowReturned ==
    (/\ req # NoneObj
     /\ req.op \in GeometryQueries
     /\ ret # NoneObj)
    => \A i \in DOMAIN ret.rows :
           (serialize_spatial_row(ret.rows[i]).ok /\ ret.rows[i][ColName] # None)
           => /\ resp.status = 200
              /\ \E k \in DOMAIN resp.body :
                    /\ resp.body[k].id = ret.rows[i][ColId]
                    /\ resp.body[k].geometry = GeometryOut(ret.rows[i][ColGeometry])

\* The import got past the extension check with a stem that is a table name
StemAccepted(r) ==
    /\ EndsWith(Lower(r.file.filename), DotGpkg)
    /\ validate_table_name(splitext(basename(r.file.filename))).ok

\* C21: an import of a file that is not .gpkg, or of an unreadable file or
\* an empty first layer under an accepted name, is answered 400; 500 is
\* answered only when the store write fails.
C21_ImportErrorStatuses ==
    Served("import_geopackage") =>
        /\ ~EndsWith(Lower(req.file.filename), DotGpkg) => resp.status = 400
        /\ (/\ StemAccepted(req)
            /\ \/ ~req.file.content.readable
               \/ req.file.content.layer.features = <<>>)
           => resp.status = 400
        /\ resp.status = 500 => ~req.storeUp

\* C22: when an import that wrote its temporary file has been answered,
\* that file does not exist.
C22_TemporaryFileRemoved ==
    (Served("import_geopackage") /\ ret # NoneObj) => ret.tmp_path \notin tmpfiles

\* C23: after a successful import of <stem>.gpkg the table <stem> has the
\* layer's features as its rows, in order, each with an id of its own and
\* the feature's geometry and field values; its columns are id, the layer's
\* fields and geometry, whatever the table held before; other tables are
\* as they were.
C23_ImportReplacesTable ==
    (Served("import_geopackage") /\ resp.status = 201) =>
        LET name == splitext(basename(req.file.filename))
            layer == req.file.content.layer
        IN  /\ name \in DOMAIN tables
            /\ ColumnNames(tables[name].cols) = Range(layer.fields) \cup {ColId, ColGeometry}
            /\ DOMAIN tables[name].rows = DOMAIN layer.features
            /\ \A k \in DOMAIN layer.features :
                  LET row == tables[name].rows[k]
                  IN  /\ row[ColId] # NullId
                      /\ \A j \in DOMAIN layer.features :
                            j # k => tables[name].rows[j][ColId] # row[ColId]
                      /\ GeometryOut(row[ColGeometry])
                            = [type |-> layer.features[k][ColGeometry].kind,
                               coordinates |-> layer.features[k][ColGeometry].coordinates]
                      /\ \A c \in Range(layer.fields) : row[c] = layer.features[k][c]
            /\ \A other \in DOMAIN before \ {name} :
                  other \in DOMAIN tables /\ tables[other] = before[other]

\* An import succeeded onto a table that had rows and a column the layer
\* does not have
C23_Witness ==
    /\ Served("import_geopackage")
    /\ resp.status = 201
    /\ LET name == splitext(basename(req.file.filename))
       IN  /\ name \in DOMAIN before
           /\ DOMAIN before[name].rows # {}
           /\ ColumnNames(before[name].cols) \ ColumnNames(tables[name].cols) # {}

ValidOfSixKinds(g) ==
    /\ g # NoneObj
    /\ g.type \in Range(TypeOrder)
    /\ SatisfiesRule(g)

C25_ColumnOrder ==
    (/\ Served("create_spatial_table")
     /\ resp.status = 201
     /\ Lower(req.table_name) \notin DOMAIN before)
    => LET cols == tables[Lower(req.table_name)].cols
       IN  /\ Len(cols) = Len(req.fields) + 2
           /\ cols[1].name = ColId
           /\ cols[2].name = ColGeometry
           /\ cols[2].geometry_type = Upper(req.geometry_type)
           /\ cols[2].srid = req.srid
           /\ \A i \in DOMAIN req.fields :
                 /\ cols[i + 2].name = Lower(req.fields[i].name)
                 /\ cols[i + 2].notnull = ~req.fields[i].nullable

\* The key a column has in a feature's properties
KeyOf(c) ==
    CASE c = ColName -> "name"
      [] c = ColDescription -> "description"
      [] c = ColLabel -> "label"
      [] OTHER -> "other"

\* C26: normalizing a selected row fails when its id is missing or null and
\* when its geometry is missing or null; otherwise the feature's properties
\* hold every other column of the row that is not null, under the column's
\* name and with its value, and nothing else.
C26_RowNormalization ==
    (req # NoneObj /\ ret # NoneObj) =>
        \A i \in DOMAIN ret.rows :
            LET row == ret.rows[i]
                out == serialize_spatial_row(row)
                incomplete ==
                    \/ ColId \notin DOMAIN row
                    \/ row[ColId] = NullId
                    \/ ColGeometry \notin DOMAIN row
                    \/ row[ColGeometry] = NoneObj
                others == {c \in DOMAIN row \ {ColId, ColGeometry} : row[c] # None}
            IN  IF incomplete
                THEN ~out.ok
                ELSE /\ out.ok
                     /\ DOMAIN out.value.properties = {KeyOf(c) : c \in others}
                     /\ \A c \in others : out.value.properties[KeyOf(c)] = row[c]

\* C27: the geometry feature create sends to the store carries the SRID
\* the target table was created with.
C27_TableSRIDAssigned ==
    (Served("create_feature") /\ sent # NoneObj /\ sent.kind = "INSERT")
    => sent.params[ColGeometry].srid = GeometryColumn(before[req.table_name]).srid

RECURSIVE HasTuple(_)
HasTuple(obj) ==
    IF IsTuple(obj) THEN TRUE
    ELSE IF IsListValue(obj) THEN \E i \in DOMAIN obj.xs : HasTuple(obj.xs[i])
    ELSE IF IsDict(obj) THEN \E k \in DOMAIN obj : HasTuple(obj[k])
    ELSE FALSE

\* y has the nesting and the leaves of x, with a list wherever x has a tuple
RECURSIVE SameButTuples(_, _)
SameButTuples(x, y) ==
    IF IsTuple(x) \/ IsListValue(x)
    THEN /\ IsListValue(y)
         /\ Len(y.xs) = Len(x.xs)
         /\ \A i \in DOMAIN x.xs : SameButTuples(x.xs[i], y.xs[i])
    ELSE IF IsDict(x)
    THEN /\ IsDict(y)
         /\ DOMAIN y = DOMAIN x
         /\ \A k \in DOMAIN x : SameButTuples(x[k], y[k])
    ELSE y = x

\* C28: tuples_to_lists(x) holds no tuple at any depth, has the nesting and
\* the leaves of x, and applying tuples_to_lists to it again changes nothing.
C28_TuplesToLists ==
    ret # NoneObj =>
        /\ ~HasTuple(ret)
        /\ SameButTuples(arg, ret)
        /\ tuples_to_lists(ret) = ret

\* A tuple holding a tuple and a dict was converted
C28_Witness ==
    /\ ret # NoneObj
    /\ arg = Tuple(<<Tuple(<<Num(1), Str("a")>>), [coordinates |-> Num(1)]>>)
    /\ ret = List(<<List(<<Num(1), Str("a")>>), [coordinates |-> Num(1)]>>)

\* C29: each of the five queries, sent with a well-formed body to a valid
\* table name that names no table, is answered 404.
C29_QueryOfMissingTableNotFound ==
    (/\ req # NoneObj
     /\ validate_table_name(req.table_name).ok
     /\ req.table_name \notin DOMAIN tables
     /\ Lower(req.table_name) \notin DOMAIN tables
     /\ ~Malformed(req)
     /\ "reach" \in DOMAIN req => IsNum(req.reach))
    => resp.status = 404

\* C30: an update leaves in every row, for name, description and geometry,
\* either the value the column had or the value the request gives, which is
\* not null.
C30_UpdateNeverNulls ==
    Served("update_feature") =>
        \A n \in DOMAIN tables \cap DOMAIN before :
            \A i \in DOMAIN tables[n].rows \cap DOMAIN before[n].rows :
                LET old == before[n].rows[i]
                    new == tables[n].rows[i]
                IN  /\ ColName \in DOMAIN new =>
                          \/ new[ColName] = old[ColName]
                          \/ new[ColName] # None /\ new[ColName] = req.feature.name
                    /\ ColDescription \in DOMAIN new =>
                          \/ new[ColDescription] = old[ColDescription]
                          \/ /\ new[ColDescription] # None
                             /\ new[ColDescription] = req.feature.description
                    /\ \/ new[ColGeometry] = old[ColGeometry]
                       \/ /\ new[ColGeometry] # NoneObj
                          /\ req.feature.geometry # NoneObj
                          /\ new[ColGeometry]
                                = from_shape(shape(req.feature.geometry).value, SRID)

\* An update that gives only a name went through on a row that has a
\* description and a geometry, and they are still there
C30_Witness ==
    /\ Served("update_feature")
    /\ resp.status = 200
    /\ req.feature.description = None
    /\ req.feature.geometry = NoneObj
    /\ before[req.table_name].rows[req.feature_id][ColDescription] # None
    /\ tables[req.table_name].rows[req.feature_id][ColDescription] # None
    /\ tables[req.table_name].rows[req.feature_id][ColGeometry] # NoneObj
    /\ tables[req.table_name].rows[req.feature_id][ColName] = req.feature.name
    /\ before[req.table_name].rows[req.feature_id][ColName] # req.feature.name

============================================================================
